---- MODULE Spec2Model ----
(***************************************************************************)
(* Cave Explorer (src/main.py): cave generation, field of view, the        *)
(* per-depth level store and turn resolution, as a state machine.          *)
(*                                                                         *)
(* A grid is a function from cells <<x, y>> (x the column, y the row, as   *)
(* in grid[x, y]) to a cell code.  The map and the field-of-view radius    *)
(* are scaled down so that the state space can be enumerated.              *)
(***************************************************************************)
EXTENDS Integers, Sequences, FiniteSets, TLC

\* ------------------------------------------------------------- bounds ---
\* The map of a session (100 x 80 in the source) and the radius of the
\* field of view (8 in the source), scaled down together.
MAP_WIDTH == 6
MAP_HEIGHT == 6
FOV_RADIUS == 1
\* The monsters created per level are capped (10, and 10 + 2 * depth).
MaxRoster == 2
\* A random index is drawn among the first MaxPick candidates.
MaxPick == 2
MaxStairPick == 1
\* The clock of a session stops advancing at MaxTime milliseconds.
MaxTime == 1200
MaxIdleTime == 3000
MaxDepth == 2
\* The dimensions of the generator of GenSpec.
GenCols == 12
GenRows == 6
GenPick == 2
MoveCols == 3
MoveRows == 2

\* ---------------------------------------------------- program constants ---
FLOOR == 0
WALL == 1
STAIRS_DOWN == 2
STAIRS_UP == 3
FILL_ITERATIONS == 5
MOVE_DELAY == 150
ENEMY_MOVE_DELAY == 500
LOG_CAPACITY == 10
STATE_START == 0
STATE_PLAYING == 1
STATE_GAME_OVER == 2

Min(a, b) == IF a < b THEN a ELSE b
Max(a, b) == IF a > b THEN a ELSE b

\* ------------------------------------------------------------- grids ---
Cells(cols, rows) == (0 .. cols - 1) \X (0 .. rows - 1)

InGrid(c, cols, rows) == c[1] >= 0 /\ c[1] < cols /\ c[2] >= 0 /\ c[2] < rows

\* np.argwhere and the nested for loops both scan x outer, y inner.
ScanOrder(cols, rows) ==
  [k \in 1 .. cols * rows |-> <<(k - 1) \div rows, (k - 1) % rows>>]

\* An array holds values: every element is computed once, when the array
\* is made.
Array(f) == f @@ <<>>

\* grid[0, :] = grid[-1, :] = grid[:, 0] = grid[:, -1] = 1
EnforceBorderSkipped(g, cols, rows) == g

EnforceBorder(g, cols, rows) ==
  Array([c \in DOMAIN g |->
           IF c[1] = 0 \/ c[1] = cols - 1 \/ c[2] = 0 \/ c[2] = rows - 1
           THEN WALL ELSE g[c]])

\* np.roll(grid, (dx, dy), axis=(0, 1))[x, y] = grid[(x - dx) % cols, (y - dy) % rows]
Rolled(g, cols, rows, dx, dy, c) == g[<<(c[1] - dx) % cols, (c[2] - dy) % rows>>]

\* neighbors: the sum of the eight shifted grids at cell c
NeighborSum(g, cols, rows, c) ==
    Rolled(g, cols, rows, -1, -1, c) + Rolled(g, cols, rows, -1, 0, c)
  + Rolled(g, cols, rows, -1, 1, c) + Rolled(g, cols, rows, 0, -1, c)
  + Rolled(g, cols, rows, 0, 1, c) + Rolled(g, cols, rows, 1, -1, c)
  + Rolled(g, cols, rows, 1, 0, c) + Rolled(g, cols, rows, 1, 1, c)

smooth_unbordered(g, cols, rows) ==
  Array([c \in DOMAIN g |->
           IF \/ (g[c] = WALL /\ NeighborSum(g, cols, rows, c) >= 4)
              \/ (g[c] = FLOOR /\ NeighborSum(g, cols, rows, c) >= 5)
           THEN WALL ELSE FLOOR])

\* One step of smoothing: wall stays wall at >= 4, floor becomes wall at >= 5,
\* everything else becomes floor; then the border is enforced.
smooth(g, cols, rows) ==
  EnforceBorder(
    Array([c \in DOMAIN g |->
             IF \/ (g[c] = WALL /\ NeighborSum(g, cols, rows, c) >= 4)
                \/ (g[c] = FLOOR /\ NeighborSum(g, cols, rows, c) >= 5)
             THEN WALL ELSE FLOOR]),
    cols, rows)

RECURSIVE SmoothTimes(_, _, _, _)
SmoothTimes(g, cols, rows, n) ==
  IF n = 0 THEN g ELSE SmoothTimes(smooth(g, cols, rows), cols, rows, n - 1)

Neighbors4(c) ==
  {<<c[1] - 1, c[2]>>, <<c[1] + 1, c[2]>>, <<c[1], c[2] - 1>>, <<c[1], c[2] + 1>>}

\* The breadth-first fill of get_regions from a start cell: the region as a set.
RECURSIVE FloodFill(_, _, _, _, _, _)
FloodFill(g, cols, rows, cell_type, region, frontier) ==
  IF frontier = {} THEN region
  ELSE LET new == {n \in UNION {Neighbors4(c) : c \in frontier} :
                     /\ InGrid(n, cols, rows)
                     /\ g[n] = cell_type
                     /\ n \notin region}
       IN  FloodFill(g, cols, rows, cell_type, region \cup new, new)

RECURSIVE ScanRegions(_, _, _, _, _, _, _)
ScanRegions(g, cols, rows, cell_type, k, visited, regions) ==
  IF k > cols * rows THEN regions
  ELSE LET c == ScanOrder(cols, rows)[k]
       IN  IF g[c] = cell_type /\ c \notin visited
           THEN LET r == FloodFill(g, cols, rows, cell_type, {c}, {c})
                IN  ScanRegions(g, cols, rows, cell_type, k + 1,
                                visited \cup r, Append(regions, r))
           ELSE ScanRegions(g, cols, rows, cell_type, k + 1, visited, regions)

\* get_regions: the regions of cell_type in the order the scan discovers them.
get_regions(g, cols, rows, cell_type) ==
  ScanRegions(g, cols, rows, cell_type, 1, {}, <<>>)

MaxSize(regions) ==
  CHOOSE m \in {Cardinality(regions[i]) : i \in DOMAIN regions} :
    \A i \in DOMAIN regions : Cardinality(regions[i]) <= m

RECURSIVE SortBySizeDescLast(_)
SortBySizeDescLast(regions) ==
  IF regions = <<>> THEN <<>>
  ELSE LET m == MaxSize(regions)
           i == CHOOSE j \in DOMAIN regions :
                  /\ Cardinality(regions[j]) = m
                  /\ \A h \in j + 1 .. Len(regions) : Cardinality(regions[h]) < m
       IN  <<regions[i]>> \o
           SortBySizeDescLast([h \in 1 .. Len(regions) - 1 |->
                             IF h < i THEN regions[h] ELSE regions[h + 1]])

\* regions.sort(key=len, reverse=True): a stable sort, largest first.
RECURSIVE SortBySizeDesc(_)
SortBySizeDesc(regions) ==
  IF regions = <<>> THEN <<>>
  ELSE LET m == MaxSize(regions)
           i == CHOOSE j \in DOMAIN regions :
                  /\ Cardinality(regions[j]) = m
                  /\ \A h \in 1 .. j - 1 : Cardinality(regions[h]) < m
       IN  <<regions[i]>> \o
           SortBySizeDesc([h \in 1 .. Len(regions) - 1 |->
                             IF h < i THEN regions[h] ELSE regions[h + 1]])

\* prune_small_regions: every Floor region but the first of the sorted list
\* is filled with Wall.
prune_small_regions(g, cols, rows) ==
  LET regions == get_regions(g, cols, rows, FLOOR)
  IN  IF regions = <<>> THEN g
      ELSE LET sorted == SortBySizeDesc(regions)
               filled == UNION {sorted[i] : i \in 2 .. Len(sorted)}
           IN  Array([c \in DOMAIN g |-> IF c \in filled THEN WALL ELSE g[c]])

\* np.argwhere(grid == 0), in scan order.
FloorIndices(g, cols, rows) ==
  SelectSeq(ScanOrder(cols, rows), LAMBDA c : g[c] = FLOOR)

\* The points get_random_floor_point can return: a Floor cell, or the centre
\* of the grid when there is none.
FloorPoints(g, cols, rows) ==
  IF Len(FloorIndices(g, cols, rows)) > 0
  THEN FloorIndices(g, cols, rows)
  ELSE <<(<<cols \div 2, rows \div 2>>)>>

\* The results of a loop that calls get_random_floor_point until the point
\* is not in rejected: one of the first picks accepted points.  The loop
\* never ends when no point is accepted.
RetryFloorPoint(g, cols, rows, rejected, picks) ==
  LET accepted == SelectSeq(FloorPoints(g, cols, rows),
                            LAMBDA c : c \notin rejected)
  IN  {accepted[i] : i \in 1 .. Min(Len(accepted), picks)}

get_random_floor_point(g, cols, rows, picks) ==
  RetryFloorPoint(g, cols, rows, {}, picks)

\* ----------------------------------------------------------- generate ---
\* The random noise of generate, np.random.choice([1, 0], size=(cols, rows)):
\* the outcomes in which every interior column is drawn all Wall or all
\* Floor (and the border, which generate overwrites, is drawn Floor).
Noise(cols, rows) ==
  {Array([c \in Cells(cols, rows) |-> IF c[1] \in W THEN WALL ELSE FLOOR]) :
     W \in SUBSET (1 .. cols - 2)}

\* generate, steps 2 to 4: border, five smoothing steps, pruning.
Carve(noise, cols, rows) ==
  prune_small_regions(
    SmoothTimes(EnforceBorder(noise, cols, rows), cols, rows, FILL_ITERATIONS),
    cols, rows)

PlaceDown(g, down) == [g EXCEPT ![down] = STAIRS_DOWN]

PlaceUp(g, up) == [g EXCEPT ![up] = STAIRS_UP]

\* The points the up stairs of a level below the first can land on: the
\* picks are repeated while the point is the down stairs.
UpStairsPointsNoRetry(g, cols, rows, down, picks) ==
  get_random_floor_point(g, cols, rows, picks)

UpStairsPoints(g, cols, rows, down, picks) ==
  RetryFloorPoint(g, cols, rows, {down}, picks)

\* generate, step 5, on the carved grid g: the (grid, up, down) it can return.
PlaceStairs(g, cols, rows, level_depth, picks) ==
  UNION {
    LET g1 == PlaceDown(g, down)
    IN  IF level_depth > 1
        THEN {[grid |-> PlaceUp(g1, up), up_pos |-> up, down_pos |-> down] :
                up \in UpStairsPoints(g1, cols, rows, down, picks)}
        ELSE {[grid |-> g1, up_pos |-> up, down_pos |-> down] :
                up \in get_random_floor_point(g1, cols, rows, picks)}
    : down \in get_random_floor_point(g, cols, rows, picks)}

\* generate never returns when the retry loop of the up stairs cannot end.
PlaceStairsDiverges(g, cols, rows, level_depth, picks) ==
  /\ level_depth > 1
  /\ \E down \in get_random_floor_point(g, cols, rows, picks) :
       UpStairsPoints(PlaceDown(g, down), cols, rows, down, picks) = {}

\* ------------------------------------------------------- field of view ---
\* math.cos and math.sin of 0, 3, ..., 357 degrees, times 10^6.
COS_E6 ==
  << 1000000, 998630, 994522, 987688, 978148, 965926, 951057, 933580, 913545, 891007,
     866025, 838671, 809017, 777146, 743145, 707107, 669131, 629320, 587785, 544639,
     500000, 453990, 406737, 358368, 309017, 258819, 207912, 156434, 104528, 52336,
     0, -52336, -104528, -156434, -207912, -258819, -309017, -358368, -406737, -453990,
     -500000, -544639, -587785, -629320, -669131, -707107, -743145, -777146, -809017, -838671,
     -866025, -891007, -913545, -933580, -951057, -965926, -978148, -987688, -994522, -998630,
     -1000000, -998630, -994522, -987688, -978148, -965926, -951057, -933580, -913545, -891007,
     -866025, -838671, -809017, -777146, -743145, -707107, -669131, -629320, -587785, -544639,
     -500000, -453990, -406737, -358368, -309017, -258819, -207912, -156434, -104528, -52336,
     0, 52336, 104528, 156434, 207912, 258819, 309017, 358368, 406737, 453990,
     500000, 544639, 587785, 629320, 669131, 707107, 743145, 777146, 809017, 838671,
     866025, 891007, 913545, 933580, 951057, 965926, 978148, 987688, 994522, 998630 >>

SIN_E6 ==
  << 0, 52336, 104528, 156434, 207912, 258819, 309017, 358368, 406737, 453990,
     500000, 544639, 587785, 629320, 669131, 707107, 743145, 777146, 809017, 838671,
     866025, 891007, 913545, 933580, 951057, 965926, 978148, 987688, 994522, 998630,
     1000000, 998630, 994522, 987688, 978148, 965926, 951057, 933580, 913545, 891007,
     866025, 838671, 809017, 777146, 743145, 707107, 669131, 629320, 587785, 544639,
     500000, 453990, 406737, 358368, 309017, 258819, 207912, 156434, 104528, 52336,
     0, -52336, -104528, -156434, -207912, -258819, -309017, -358368, -406737, -453990,
     -500000, -544639, -587785, -629320, -669131, -707107, -743145, -777146, -809017, -838671,
     -866025, -891007, -913545, -933580, -951057, -965926, -978148, -987688, -994522, -998630,
     -1000000, -998630, -994522, -987688, -978148, -965926, -951057, -933580, -913545, -891007,
     -866025, -838671, -809017, -777146, -743145, -707107, -669131, -629320, -587785, -544639,
     -500000, -453990, -406737, -358368, -309017, -258819, -207912, -156434, -104528, -52336 >>

\* Where a component is a half in magnitude (the cosine at 60, 120, 240, 300
\* degrees, the sine at 30, 150, 210, 330), k steps from an integer origin
\* land on or next to a tie, which the doubles and round() (ties to even)
\* decide: HalfSteps[a][origin + 1][k] is int(round(x)) - origin after k
\* additions, for origins 0 .. 9 and k in 1 .. 6, keyed by the cosine ray
\* index a and by 120 + a for the sine.
UpA == <<(<<0, 1, 1, 2, 2, 3>>), (<<1, 1, 1, 2, 3, 3>>)>>
UpB == <<(<<1, 1, 2, 2, 3, 3>>), (<<1, 1, 1, 2, 3, 3>>)>>
UpEven == <<0, 1, 2, 2, 2, 3>>
UpOdd == <<1, 1, 1, 2, 3, 3>>
DnLow == <<0, -1, -1, -2, -2, -3>>
DnHigh == <<-1, -1, -2, -2, -3, -3>>
DnMid == <<0, -1, -2, -2, -3, -3>>
DnEven == <<0, -1, -2, -2, -2, -3>>
DnOdd == <<-1, -1, -1, -2, -3, -3>>
DnOdd3 == <<-1, -1, -1, -2, -2, -3>>

HalfSteps ==
  (20 :> (UpB \o <<UpEven, UpOdd, UpEven, UpOdd, UpEven, UpOdd, UpEven, UpOdd>>))
  @@ (100 :> (UpB \o <<UpEven, UpOdd, UpEven, UpOdd, UpEven, UpOdd, UpEven, UpOdd>>))
  @@ (130 :> (UpA \o <<UpEven, UpOdd, UpEven, UpOdd, UpEven, UpOdd, UpEven, UpOdd>>))
  @@ (170 :> (UpA \o <<UpEven, UpOdd, UpEven, UpOdd, UpEven, UpOdd, UpEven, UpOdd>>))
  @@ (40 :> <<DnLow, DnLow, DnLow, DnOdd3, DnEven, DnOdd, DnEven, DnOdd, DnEven, DnOdd>>)
  @@ (190 :> <<DnHigh, DnHigh, DnMid, DnOdd, DnEven, DnOdd, DnEven, DnOdd, DnEven, DnOdd>>)
  @@ (80 :> <<DnHigh, DnHigh, DnHigh, DnHigh, DnHigh, DnHigh, DnMid, DnOdd, DnEven, DnOdd>>)
  @@ (230 :> <<DnHigh, DnHigh, DnHigh, DnHigh, DnHigh, DnHigh, DnMid, DnOdd, DnEven, DnOdd>>)

\* int(round(x)) - origin after k additions of the component e6 / 10^6.
StepOffset(origin, key, e6, k) ==
  IF key \in DOMAIN HalfSteps
  THEN HalfSteps[key][origin + 1][k]
  ELSE (k * e6 + 500000) \div 1000000

RayCell(origin_x, origin_y, a, k) ==
  <<origin_x + StepOffset(origin_x, a, COS_E6[a + 1], k),
    origin_y + StepOffset(origin_y, 120 + a, SIN_E6[a + 1], k)>>

\* The cells one ray adds from its step k on: it stops outside the map and
\* on a Wall cell, which it includes.
RECURSIVE CastRay(_, _, _, _, _, _)
CastRay(origin_x, origin_y, a, k, radius, g) ==
  IF k > radius * 2 THEN {}
  ELSE LET c == RayCell(origin_x, origin_y, a, k)
       IN  IF ~InGrid(c, MAP_WIDTH, MAP_HEIGHT) THEN {}
           ELSE IF g[c] = WALL THEN {c}
           ELSE {c} \cup CastRay(origin_x, origin_y, a, k + 1, radius, g)

compute_fov_through_walls(origin_x, origin_y, radius, g) ==
  {<<origin_x, origin_y>>}
    \cup {c \in {RayCell(origin_x, origin_y, a, k) :
                   a \in 0 .. 119, k \in 1 .. radius * 2} :
            InGrid(c, MAP_WIDTH, MAP_HEIGHT)}

compute_fov(origin_x, origin_y, radius, g) ==
  {<<origin_x, origin_y>>}
    \cup UNION {CastRay(origin_x, origin_y, a, 1, radius, g) : a \in 0 .. 119}

\* ------------------------------------------------------------ entities ---
\* Entity objects live in objs, keyed by reference: PLAYER is the player,
\* the goblins have the references 1, 2, ...
PLAYER == 0

Player(x, y) ==
  [x |-> x, y |-> y, name |-> "Player", hp |-> 30, max_hp |-> 30,
   ac |-> 14, strength |-> 3]

Goblin(x, y) ==
  [x |-> x, y |-> y, name |-> "Goblin", hp |-> 10, max_hp |-> 10,
   ac |-> 12, strength |-> 1]

Position(e) == <<e.x, e.y>>

\* The entities of the list, in list order, that are not self and stand on pos.
EntitiesAt(objs, self, ents, pos) ==
  SelectSeq(ents, LAMBDA e : e # self /\ Position(objs[e]) = pos)

try_move_entities_first(objs, self, dx, dy, g, ents) ==
  LET new == <<objs[self].x + dx, objs[self].y + dy>>
      hit == EntitiesAt(objs, self, ents, new)
  IN  IF new \notin DOMAIN g THEN [ret |-> <<"False">>, objs |-> objs]
      ELSE IF g[new] = WALL THEN [ret |-> <<"False">>, objs |-> objs]
      ELSE IF hit # <<>> THEN [ret |-> <<"Entity", Head(hit)>>, objs |-> objs]
      ELSE IF g[new] = STAIRS_DOWN THEN [ret |-> <<"stairs_down">>, objs |-> objs]
      ELSE IF g[new] = STAIRS_UP THEN [ret |-> <<"stairs_up">>, objs |-> objs]
      ELSE [ret |-> <<"True">>,
            objs |-> [objs EXCEPT ![self].x = new[1], ![self].y = new[2]]]

try_move_through_walls(objs, self, dx, dy, g, ents) ==
  LET new == <<objs[self].x + dx, objs[self].y + dy>>
      hit == EntitiesAt(objs, self, ents, new)
  IN  IF new \notin DOMAIN g THEN [ret |-> <<"False">>, objs |-> objs]
      ELSE IF g[new] = STAIRS_DOWN THEN [ret |-> <<"stairs_down">>, objs |-> objs]
      ELSE IF g[new] = STAIRS_UP THEN [ret |-> <<"stairs_up">>, objs |-> objs]
      ELSE IF hit # <<>> THEN [ret |-> <<"Entity", Head(hit)>>, objs |-> objs]
      ELSE [ret |-> <<"True">>,
            objs |-> [objs EXCEPT ![self].x = new[1], ![self].y = new[2]]]

\* Entity.try_move: ret is the value returned (False, "stairs_down",
\* "stairs_up", the entity collided with, or True), objs the objects after.
try_move(objs, self, dx, dy, g, ents) ==
  LET new == <<objs[self].x + dx, objs[self].y + dy>>
      hit == EntitiesAt(objs, self, ents, new)
  IN  IF new \notin DOMAIN g THEN [ret |-> <<"False">>, objs |-> objs]
      ELSE IF g[new] = WALL THEN [ret |-> <<"False">>, objs |-> objs]
      ELSE IF g[new] = STAIRS_DOWN THEN [ret |-> <<"stairs_down">>, objs |-> objs]
      ELSE IF g[new] = STAIRS_UP THEN [ret |-> <<"stairs_up">>, objs |-> objs]
      ELSE IF hit # <<>> THEN [ret |-> <<"Entity", Head(hit)>>, objs |-> objs]
      ELSE [ret |-> <<"True">>,
            objs |-> [objs EXCEPT ![self].x = new[1], ![self].y = new[2]]]

\* MessageLog.add_message: the oldest message is dropped beyond the capacity.
add_message(messages, text) ==
  IF Len(messages) + 1 > LOG_CAPACITY
  THEN Tail(Append(messages, text))
  ELSE Append(messages, text)

D20 == 1 .. 20
D6 == 1 .. 6

\* The rolls a session draws.
Rolls == {1, 20}
Dice == {6}

attack_above_ac(objs, self, target, roll, die, messages) ==
  LET hit_roll == roll + objs[self].strength
      damage == Max(1, die + objs[self].strength)
      hp == objs[target].hp - damage
      hit_log == add_message(messages, <<objs[self].name, "HIT", damage>>)
  IN  IF hit_roll > objs[target].ac
      THEN [objs |-> [objs EXCEPT ![target].hp = hp],
            messages |-> IF hp <= 0
                         THEN add_message(hit_log, <<objs[target].name, "dies">>)
                         ELSE hit_log]
      ELSE [objs |-> objs,
            messages |-> add_message(messages, <<objs[self].name, "MISS">>)]

\* Entity.attack with the rolls random.randint(1, 20) and random.randint(1, 6).
attack(objs, self, target, roll, die, messages) ==
  LET hit_roll == roll + objs[self].strength
      damage == Max(1, die + objs[self].strength)
      hp == objs[target].hp - damage
      hit_log == add_message(messages, <<objs[self].name, "HIT", damage>>)
  IN  IF hit_roll >= objs[target].ac
      THEN [objs |-> [objs EXCEPT ![target].hp = hp],
            messages |-> IF hp <= 0
                         THEN add_message(hit_log, <<objs[target].name, "dies">>)
                         ELSE hit_log]
      ELSE [objs |-> objs,
            messages |-> add_message(messages, <<objs[self].name, "MISS">>)]

Sign(a, b) == IF a < b THEN 1 ELSE IF a > b THEN -1 ELSE 0

\* random.choice([(0,1), (0,-1), (1,0), (-1,0), (0,0)])
WanderDirections == {<<0, 1>>, <<0, -1>>, <<1, 0>>, <<-1, 0>>, <<0, 0>>}

GoblinStepsOneAxis(objs, self, visible) ==
  IF Position(objs[self]) \in visible
  THEN {IF objs[self].x # objs[PLAYER].x
        THEN <<Sign(objs[self].x, objs[PLAYER].x), 0>>
        ELSE <<0, Sign(objs[self].y, objs[PLAYER].y)>>}
  ELSE WanderDirections

\* The step Goblin.update chooses: toward the player when the goblin stands
\* on a visible tile, a random direction otherwise.
GoblinSteps(objs, self, visible) ==
  IF Position(objs[self]) \in visible
  THEN {<<Sign(objs[self].x, objs[PLAYER].x), Sign(objs[self].y, objs[PLAYER].y)>>}
  ELSE WanderDirections

\* ------------------------------------------------------------- session ---
VARIABLES
  game_state,            \* STATE_START, STATE_PLAYING or STATE_GAME_OVER
  pc,                    \* the position of main's loop inside a frame
  now,                   \* pygame.time.get_ticks() of the frame
  last_move_time,
  last_enemy_move_time,
  dungeon_level,
  levels,                \* depth -> LevelState
  objs,                  \* reference -> Entity object
  grid,                  \* main's local grid
  explored_tiles,        \* main's local explored_tiles
  explored_shared,       \* explored_tiles is levels[dungeon_level].explored_tiles
  enemies,               \* main's local enemies: a list of references
  visible_tiles,
  fov_call,              \* the compute_fov call that gave visible_tiles
  message_log,           \* message_log.messages
  sweep_i,               \* the position of "for enemy in enemies"
  call,                  \* the last try_move of the frame, see Called
  strike,                \* the attack the step has resolved, see Struck
  last_action_time,      \* history: the clock of the player's last accepted action
  generator,             \* the CaveGenerator: cols, rows, grid
  genrun                 \* a call of generate that runs step by step

vars ==
  <<game_state, pc, now, last_move_time, last_enemy_move_time, dungeon_level,
    levels, objs, grid, explored_tiles, explored_shared, enemies,
    visible_tiles, fov_call, message_log, sweep_i, call, strike,
    last_action_time, generator, genrun>>

LevelState(g, explored, roster, up_pos, down_pos) ==
  [grid |-> g, explored_tiles |-> explored, enemies |-> roster,
   up_pos |-> up_pos, down_pos |-> down_pos]

\* The clock advances by one of these between two frames.
FrameTimes == {150, 600}

\* The frames of a session left alone are long.
SlowFrameTimes == {600}

\* The grids generate can leave after pruning, on the map of the session.
CarvedMaps ==
  {Carve(noise, MAP_WIDTH, MAP_HEIGHT) : noise \in Noise(MAP_WIDTH, MAP_HEIGHT)}

FirstLevels ==
  UNION {PlaceStairs(g, MAP_WIDTH, MAP_HEIGHT, 1, MaxStairPick) : g \in CarvedMaps}

DeepLevels ==
  UNION {PlaceStairs(g, MAP_WIDTH, MAP_HEIGHT, 2, MaxStairPick) : g \in CarvedMaps}

\* generator.generate(level_depth): what it can return.
Generated(level_depth) == IF level_depth > 1 THEN DeepLevels ELSE FirstLevels

GenerateDiverges(level_depth) ==
  \E g \in CarvedMaps :
    PlaceStairsDiverges(g, MAP_WIDTH, MAP_HEIGHT, level_depth, MaxStairPick)

\* range(10) and range(10 + dungeon_level * 2), capped.
FirstRosterSize == Min(10, MaxRoster)

RosterSize(depth) == Min(10 + depth * 2, MaxRoster)

\* The points a goblin of level 1 can be put on: not the spawn point.
FirstSpots(lvl) ==
  RetryFloorPoint(lvl.grid, MAP_WIDTH, MAP_HEIGHT, {lvl.up_pos}, MaxPick)

\* The points a goblin of a deeper level can be put on: not the stairs.
DeepSpots(lvl) ==
  RetryFloorPoint(lvl.grid, MAP_WIDTH, MAP_HEIGHT,
                  {lvl.up_pos, lvl.down_pos}, MaxPick)

DeepGoblin(pos, depth) ==
  [Goblin(pos[1], pos[2]) EXCEPT !.hp = 10 + depth, !.max_hp = 10 + depth,
                                 !.strength = 1 + (depth \div 3)]

MaxRef(o) == CHOOSE m \in DOMAIN o : \A r \in DOMAIN o : r <= m

\* o with one new object per element of the sequence made, and their references.
NewRefs(o, made) == [i \in 1 .. Len(made) |-> MaxRef(o) + i]

WithObjects(o, made) ==
  [r \in DOMAIN o \cup {MaxRef(o) + i : i \in 1 .. Len(made)} |->
     IF r \in DOMAIN o THEN o[r] ELSE made[r - MaxRef(o)]]

MoveTo(o, ref, pos) == [o EXCEPT ![ref].x = pos[1], ![ref].y = pos[2]]

\* The grids a level of the session can have.
SessionGrids == {lvl.grid : lvl \in FirstLevels \cup DeepLevels}

\* compute_fov(x, y, FOV_RADIUS, g) for every grid and origin of the session,
\* computed once.
FovTable ==
  Array([g \in SessionGrids |->
           Array([c \in Cells(MAP_WIDTH, MAP_HEIGHT) |->
                    compute_fov(c[1], c[2], FOV_RADIUS, g)])])

PlayerFov(o, g) == FovTable[g][Position(o[PLAYER])]

\* A call self.try_move(dx, dy, ...): pos is the caller's position before
\* the call, ret the value returned and new_pos the caller's position when
\* try_move returns.
Called(o, self, dx, dy, r) ==
  [self |-> self, dx |-> dx, dy |-> dy, pos |-> Position(o[self]),
   ret |-> r.ret, new_pos |-> Position(r.objs[self])]

NoCall ==
  [self |-> -1, dx |-> 0, dy |-> 0, pos |-> <<0, 0>>, ret |-> <<"None">>,
   new_pos |-> <<0, 0>>]

\* A call self.attack(target, message_log) with its two rolls: hp is the
\* target's hp before the call.
Struck(o, self, target, roll, die) ==
  [self |-> self, target |-> target, roll |-> roll, die |-> die,
   hp |-> o[target].hp]

NoStrike == [self |-> -1, target |-> -1, roll |-> 0, die |-> 0, hp |-> 0]

\* A call compute_fov(origin_x, origin_y, radius, grid).
FovCall(origin, radius) ==
  [origin_x |-> origin[1], origin_y |-> origin[2], radius |-> radius]

NoFov == [origin_x |-> -1, origin_y |-> -1, radius |-> 0]

\* No player action has been accepted yet.
NoTime == -1

NoPoint == <<-1, -1>>

GenIdle ==
  [pc |-> "idle", level_depth |-> 0, smoothed |-> 0, down |-> NoPoint,
   up |-> NoPoint]

\* main up to its loop: level 1 is generated, populated and stored.
Init ==
  \E lvl \in FirstLevels :
    \E spots \in [1 .. FirstRosterSize -> FirstSpots(lvl)] :
      LET made == [i \in 1 .. FirstRosterSize |-> Goblin(spots[i][1], spots[i][2])]
          start == (PLAYER :> Player(lvl.up_pos[1], lvl.up_pos[2]))
      IN  /\ game_state = STATE_START
          /\ pc = "events"
          /\ now = 0
          /\ last_move_time = 0
          /\ last_enemy_move_time = 0
          /\ dungeon_level = 1
          /\ objs = WithObjects(start, made)
          /\ enemies = NewRefs(start, made)
          /\ grid = lvl.grid
          /\ generator = [cols |-> MAP_WIDTH, rows |-> MAP_HEIGHT, grid |-> lvl.grid]
          /\ visible_tiles = PlayerFov(start, lvl.grid)
          /\ fov_call = FovCall(Position(start[PLAYER]), FOV_RADIUS)
          /\ explored_tiles = PlayerFov(start, lvl.grid)
          /\ explored_shared = FALSE
          /\ levels = (1 :> LevelState(lvl.grid, PlayerFov(start, lvl.grid),
                                       NewRefs(start, made), lvl.up_pos, lvl.down_pos))
          /\ message_log = <<(<<"Welcome">>)>>
          /\ sweep_i = 1
          /\ call = NoCall
          /\ strike = NoStrike
          /\ last_action_time = NoTime
          /\ genrun = GenIdle

\* explored_tiles.update(seen), through the set object the level may share.
LevelsExploring(lv, depth, shared, explored) ==
  IF shared THEN [lv EXCEPT ![depth].explored_tiles = explored] ELSE lv

Directions == (-1 .. 1) \X (-1 .. 1)

\* clock.tick and the clock read of a frame of play: dt has passed since
\* the last frame of play.
Tick(dts, limit) == \E dt \in dts : /\ now + dt <= limit
                                    /\ now' = now + dt

\* A frame of the start screen without the space key: nothing changes that
\* main keeps (the clock is read by the frames of play only).
StartScreen ==
  /\ pc = "events"
  /\ game_state = STATE_START
  /\ UNCHANGED vars

\* The space key on the start screen: the frame goes on as a frame of play.
Start(dts, limit) ==
  /\ pc = "events"
  /\ game_state = STATE_START
  /\ Tick(dts, limit)
  /\ game_state' = IF objs[PLAYER].hp <= 0 THEN STATE_GAME_OVER ELSE STATE_PLAYING
  /\ pc' = "input"
  /\ call' = NoCall
  /\ strike' = NoStrike
  /\ UNCHANGED last_action_time
  /\ UNCHANGED <<last_move_time, last_enemy_move_time, dungeon_level, levels,
                 objs, grid, explored_tiles, explored_shared, enemies,
                 visible_tiles, fov_call, message_log, sweep_i, generator, genrun>>

StartGame == Start(FrameTimes, MaxTime)

\* A frame of the game-over screen without the space key.
GameOverScreen ==
  /\ pc = "events"
  /\ game_state = STATE_GAME_OVER
  /\ UNCHANGED vars

\* The player of a restart: on the spawn point, healed.
Healed(o, spawn_pos) ==
  (PLAYER :> [o[PLAYER] EXCEPT !.x = spawn_pos[1], !.y = spawn_pos[2],
                               !.hp = o[PLAYER].max_hp])

NoLevels == [d \in {} |-> 0]

\* The space key on the game-over screen: a new level 1, a healed player.
\* The frame goes on as a frame of play, or the loop that places a goblin
\* never ends.
Restart ==
  /\ pc = "events"
  /\ game_state = STATE_GAME_OVER
  /\ Tick(SlowFrameTimes, MaxIdleTime)
  /\ \E lvl \in Generated(1) :
       LET healed == Healed(objs, lvl.up_pos)
       IN  /\ grid' = lvl.grid
           /\ generator' = [generator EXCEPT !.grid = lvl.grid]
           /\ \/ \E spots \in [1 .. FirstRosterSize -> FirstSpots(lvl)] :
                   LET made == [i \in 1 .. FirstRosterSize |->
                                  Goblin(spots[i][1], spots[i][2])]
                   IN  /\ objs' = WithObjects(healed, made)
                       /\ enemies' = NewRefs(healed, made)
                       /\ visible_tiles' = PlayerFov(healed, lvl.grid)
                       /\ fov_call' = FovCall(Position(healed[PLAYER]), FOV_RADIUS)
                       /\ explored_tiles' = PlayerFov(healed, lvl.grid)
                       /\ explored_shared' = TRUE
                       /\ levels' = (1 :> LevelState(
                                       lvl.grid, PlayerFov(healed, lvl.grid),
                                       NewRefs(healed, made),
                                       lvl.up_pos, lvl.down_pos))
                       /\ game_state' = STATE_PLAYING
                       /\ pc' = "input"
              \/ /\ FirstRosterSize > 0
                 /\ FirstSpots(lvl) = {}
                 /\ objs' = healed
                 /\ enemies' = <<>>
                 /\ explored_shared' = FALSE
                 /\ levels' = NoLevels
                 /\ pc' = "hung"
                 /\ UNCHANGED <<game_state, explored_tiles, visible_tiles, fov_call>>
  /\ dungeon_level' = 1
  /\ call' = NoCall
  /\ strike' = NoStrike
  /\ UNCHANGED last_action_time
  /\ UNCHANGED <<last_move_time, last_enemy_move_time, message_log, sweep_i,
                 genrun>>

\* A frame of play starts: the check of the player's death.
Frame(dts, limit) ==
  /\ pc = "events"
  /\ game_state = STATE_PLAYING
  /\ Tick(dts, limit)
  /\ game_state' = IF objs[PLAYER].hp <= 0 THEN STATE_GAME_OVER ELSE STATE_PLAYING
  /\ pc' = "input"
  /\ call' = NoCall
  /\ strike' = NoStrike
  /\ UNCHANGED last_action_time
  /\ UNCHANGED <<last_move_time, last_enemy_move_time, dungeon_level, levels,
                 objs, grid, explored_tiles, explored_shared, enemies,
                 visible_tiles, fov_call, message_log, sweep_i, generator, genrun>>

PlayFrame == Frame(FrameTimes, MaxTime)

\* The keys held give (dx, dy); the player acts when one is not zero and
\* more than MOVE_DELAY has passed since the last action.
PlayerActs(dx, dy) ==
  /\ dx # 0 \/ dy # 0
  /\ now - last_move_time > MOVE_DELAY

PlayerTry(dx, dy) ==
  try_move(objs, PLAYER, dx, dy, levels[dungeon_level].grid,
           enemies \o <<PLAYER>>)

\* No key, keys that cancel, or the delay has not passed.
PlayerIdle ==
  /\ pc = "input"
  /\ \E d \in Directions : ~PlayerActs(d[1], d[2])
  /\ pc' = "enemies"
  /\ call' = NoCall
  /\ strike' = NoStrike
  /\ UNCHANGED last_action_time
  /\ UNCHANGED <<game_state, now, last_move_time, last_enemy_move_time,
                 dungeon_level, levels, objs, grid, explored_tiles,
                 explored_shared, enemies, visible_tiles, fov_call, message_log, sweep_i,
                 generator, genrun>>

\* try_move returns False: nothing happens.
PlayerBlocked ==
  /\ pc = "input"
  /\ \E d \in Directions :
       /\ PlayerActs(d[1], d[2])
       /\ PlayerTry(d[1], d[2]).ret = <<"False">>
       /\ call' = Called(objs, PLAYER, d[1], d[2], PlayerTry(d[1], d[2]))
       /\ strike' = NoStrike
       /\ UNCHANGED last_action_time
  /\ pc' = "enemies"
  /\ UNCHANGED <<game_state, now, last_move_time, last_enemy_move_time,
                 dungeon_level, levels, objs, grid, explored_tiles,
                 explored_shared, enemies, visible_tiles, fov_call, message_log, sweep_i,
                 generator, genrun>>

\* try_move returns True: the player has moved, the field of view follows.
PlayerMoved ==
  /\ pc = "input"
  /\ \E d \in Directions :
       LET r == PlayerTry(d[1], d[2])
       IN  /\ PlayerActs(d[1], d[2])
           /\ r.ret = <<"True">>
           /\ call' = Called(objs, PLAYER, d[1], d[2], r)
           /\ strike' = NoStrike
           /\ last_action_time' = now
           /\ objs' = r.objs
           /\ visible_tiles' = PlayerFov(r.objs, grid)
           /\ fov_call' = FovCall(Position(r.objs[PLAYER]), FOV_RADIUS)
           /\ explored_tiles' = explored_tiles \cup PlayerFov(r.objs, grid)
           /\ levels' = LevelsExploring(levels, dungeon_level, explored_shared,
                                        explored_tiles \cup PlayerFov(r.objs, grid))
  /\ last_move_time' = now
  /\ pc' = "enemies"
  /\ UNCHANGED <<game_state, now, last_enemy_move_time, dungeon_level, grid,
                 explored_shared, enemies, message_log, sweep_i, generator,
                 genrun>>

\* try_move returns an entity: the player attacks it.
PlayerAttack ==
  /\ pc = "input"
  /\ \E d \in Directions, roll \in Rolls, die \in Dice :
       LET r == PlayerTry(d[1], d[2])
           a == attack(objs, PLAYER, r.ret[2], roll, die, message_log)
       IN  /\ PlayerActs(d[1], d[2])
           /\ r.ret[1] = "Entity"
           /\ call' = Called(objs, PLAYER, d[1], d[2], r)
           /\ strike' = Struck(objs, PLAYER, r.ret[2], roll, die)
           /\ last_action_time' = now
           /\ objs' = a.objs
           /\ message_log' = a.messages
  /\ last_move_time' = now
  /\ visible_tiles' = PlayerFov(objs, grid)
  /\ fov_call' = FovCall(Position(objs[PLAYER]), FOV_RADIUS)
  /\ explored_tiles' = explored_tiles \cup PlayerFov(objs, grid)
  /\ levels' = LevelsExploring(levels, dungeon_level, explored_shared,
                               explored_tiles \cup PlayerFov(objs, grid))
  /\ pc' = "enemies"
  /\ UNCHANGED <<game_state, now, last_enemy_move_time, dungeon_level, grid,
                 explored_shared, enemies, sweep_i, generator, genrun>>

\* "dungeon_level in levels"
LevelStored(depth, lv) == depth \in DOMAIN lv

\* levels[dungeon_level].explored_tiles = explored_tiles.copy()
SaveExploredSkipped(lv, depth, explored) == lv

SaveExplored(lv, depth, explored) ==
  [lv EXCEPT ![depth].explored_tiles = explored]

\* The player enters the stored level depth at pos: the level's grid, roster
\* and explored set become main's, and the field of view is added.
EnterLevel(lv, depth, pos) ==
  LET seen == FovTable[lv[depth].grid][pos]
  IN  /\ objs' = MoveTo(objs, PLAYER, pos)
      /\ grid' = lv[depth].grid
      /\ enemies' = lv[depth].enemies
      /\ visible_tiles' = seen
      /\ fov_call' = FovCall(pos, FOV_RADIUS)
      /\ explored_tiles' = lv[depth].explored_tiles \cup seen
      /\ explored_shared' = TRUE
      /\ levels' = [lv EXCEPT ![depth].explored_tiles =
                                 lv[depth].explored_tiles \cup seen]

\* levels[depth] = state: the other levels keep their own grids, because
\* generate returns a copy of the generator's grid.
StoreLevelAliased(lv, depth, state) ==
  [d \in DOMAIN lv \cup {depth} |->
     IF d = depth THEN state ELSE [lv[d] EXCEPT !.grid = state.grid]]

StoreLevel(lv, depth, state) ==
  [d \in DOMAIN lv \cup {depth} |-> IF d = depth THEN state ELSE lv[d]]

\* The level depth is generated, populated, stored and entered at its up
\* stairs; or generate, or the loop that places a goblin, never ends.
CreateLevel(lv, depth) ==
  \/ \E lvl \in Generated(depth) :
       /\ generator' = [generator EXCEPT !.grid = lvl.grid]
       /\ grid' = lvl.grid
       /\ \/ \E spots \in [1 .. RosterSize(depth) -> DeepSpots(lvl)] :
               LET made == [i \in 1 .. RosterSize(depth) |->
                              DeepGoblin(spots[i], depth)]
                   seen == FovTable[lvl.grid][lvl.up_pos]
               IN  /\ objs' = MoveTo(WithObjects(objs, made), PLAYER, lvl.up_pos)
                   /\ enemies' = NewRefs(objs, made)
                   /\ visible_tiles' = seen
                   /\ fov_call' = FovCall(lvl.up_pos, FOV_RADIUS)
                   /\ explored_tiles' = seen
                   /\ explored_shared' = TRUE
                   /\ levels' = StoreLevel(lv, depth,
                                            LevelState(lvl.grid, seen,
                                                       NewRefs(objs, made),
                                                       lvl.up_pos, lvl.down_pos))
                   /\ pc' = "enemies"
          \/ /\ RosterSize(depth) > 0
             /\ DeepSpots(lvl) = {}
             /\ enemies' = <<>>
             /\ explored_shared' = FALSE
             /\ levels' = lv
             /\ pc' = "hung"
             /\ UNCHANGED <<objs, visible_tiles, fov_call, explored_tiles>>
  \/ /\ \E g \in CarvedMaps :
          \E down \in get_random_floor_point(g, MAP_WIDTH, MAP_HEIGHT,
                                              MaxStairPick) :
            /\ depth > 1
            /\ UpStairsPoints(PlaceDown(g, down), MAP_WIDTH, MAP_HEIGHT,
                              down, MaxStairPick) = {}
            /\ generator' = [generator EXCEPT !.grid = PlaceDown(g, down)]
     /\ explored_shared' = FALSE
     /\ levels' = lv
     /\ pc' = "hung"
     /\ UNCHANGED <<objs, grid, enemies, visible_tiles, fov_call, explored_tiles>>

\* "player.x, player.y = lvl.up_pos" after a descent, "= lvl.down_pos" after
\* an ascent.
DescentArrival(lvl) == lvl.up_pos

AscentArrivalAtUp(lvl) == lvl.up_pos

AscentArrival(lvl) == lvl.down_pos

\* try_move returns "stairs_down": the level below is loaded or created.
PlayerDescend ==
  /\ pc = "input"
  /\ \E d \in Directions :
       /\ PlayerActs(d[1], d[2])
       /\ PlayerTry(d[1], d[2]).ret = <<"stairs_down">>
       /\ call' = Called(objs, PLAYER, d[1], d[2], PlayerTry(d[1], d[2]))
       /\ strike' = NoStrike
       /\ last_action_time' = now
  /\ dungeon_level' = dungeon_level + 1
  /\ message_log' = add_message(message_log,
                                <<"You", "descend", dungeon_level + 1>>)
  /\ LET saved == SaveExplored(levels, dungeon_level, explored_tiles)
     IN  IF LevelStored(dungeon_level + 1, levels)
         THEN /\ EnterLevel(saved, dungeon_level + 1,
                            DescentArrival(saved[dungeon_level + 1]))
              /\ pc' = "enemies"
              /\ UNCHANGED generator
         ELSE /\ dungeon_level + 1 <= MaxDepth
              /\ CreateLevel(saved, dungeon_level + 1)
  /\ UNCHANGED <<game_state, now, last_move_time, last_enemy_move_time,
                 sweep_i, genrun>>

\* try_move returns "stairs_up": the level above is loaded, or the player
\* is told that the cave cannot be left.
PlayerAscend ==
  /\ pc = "input"
  /\ \E d \in Directions :
       /\ PlayerActs(d[1], d[2])
       /\ PlayerTry(d[1], d[2]).ret = <<"stairs_up">>
       /\ call' = Called(objs, PLAYER, d[1], d[2], PlayerTry(d[1], d[2]))
       /\ strike' = NoStrike
       /\ last_action_time' = IF dungeon_level > 1 THEN now
                                                   ELSE last_action_time
  /\ IF dungeon_level > 1
     THEN LET saved == SaveExplored(levels, dungeon_level, explored_tiles)
          IN  /\ dungeon_level' = dungeon_level - 1
              /\ message_log' = add_message(message_log,
                                            <<"You", "ascend", dungeon_level - 1>>)
              /\ EnterLevel(saved, dungeon_level - 1,
                            AscentArrival(saved[dungeon_level - 1]))
     ELSE /\ message_log' = add_message(message_log, <<"You", "cannot leave">>)
          /\ UNCHANGED <<dungeon_level, levels, objs, grid, explored_tiles,
                         explored_shared, enemies, visible_tiles, fov_call>>
  /\ pc' = "enemies"
  /\ UNCHANGED <<game_state, now, last_move_time, last_enemy_move_time,
                 sweep_i, generator, genrun>>

StoreRosterSkipped(lv, depth, roster) == lv

\* levels[dungeon_level].enemies = active_enemies
StoreRosterEverywhere(lv, depth, roster) ==
  [d \in DOMAIN lv |-> [lv[d] EXCEPT !.enemies = roster]]

StoreRoster(lv, depth, roster) == [lv EXCEPT ![depth].enemies = roster]

\* The objects some list still refers to.
Referenced(lv, roster) ==
  {PLAYER} \cup {roster[i] : i \in 1 .. Len(roster)}
           \cup UNION {{lv[d].enemies[i] : i \in 1 .. Len(lv[d].enemies)} :
                         d \in DOMAIN lv}

Collect(o, refs) == [r \in DOMAIN o \cap refs |-> o[r]]

EnemiesDue == now - last_enemy_move_time > ENEMY_MOVE_DELAY

\* The enemies are not due: the frame ends.
SweepSkip ==
  /\ pc = "enemies"
  /\ ~EnemiesDue
  /\ pc' = "events"
  /\ call' = NoCall
  /\ strike' = NoStrike
  /\ UNCHANGED last_action_time
  /\ UNCHANGED <<game_state, now, last_move_time, last_enemy_move_time,
                 dungeon_level, levels, objs, grid, explored_tiles,
                 explored_shared, enemies, visible_tiles, fov_call, message_log, sweep_i,
                 generator, genrun>>

\* The enemies are due: the dead leave the roster of the active level.
SweepBegin ==
  /\ pc = "enemies"
  /\ EnemiesDue
  /\ LET active_enemies == SelectSeq(enemies, LAMBDA e : objs[e].hp > 0)
         stored == StoreRoster(levels, dungeon_level, active_enemies)
     IN  /\ enemies' = active_enemies
         /\ levels' = stored
         /\ objs' = Collect(objs, Referenced(stored, active_enemies))
  /\ sweep_i' = 1
  /\ pc' = "sweep"
  /\ call' = NoCall
  /\ strike' = NoStrike
  /\ UNCHANGED last_action_time
  /\ UNCHANGED <<game_state, now, last_move_time, last_enemy_move_time,
                 dungeon_level, grid, explored_tiles, explored_shared,
                 visible_tiles, fov_call, message_log, generator, genrun>>

\* Goblin.update of the next enemy of the roster.
EnemyUpdate ==
  /\ pc = "sweep"
  /\ sweep_i <= Len(enemies)
  /\ LET self == enemies[sweep_i]
     IN  IF objs[self].hp <= 0
         THEN /\ call' = NoCall
              /\ strike' = NoStrike
              /\ UNCHANGED <<objs, message_log>>
         ELSE \E step \in GoblinSteps(objs, self, visible_tiles) :
                IF step = <<0, 0>>
                THEN /\ call' = NoCall
                     /\ strike' = NoStrike
                     /\ UNCHANGED <<objs, message_log>>
                ELSE LET r == try_move(objs, self, step[1], step[2], grid,
                                       enemies \o <<PLAYER>>)
                     IN  /\ call' = Called(objs, self, step[1], step[2], r)
                         /\ IF r.ret[1] = "Entity"
                            THEN \E roll \in Rolls, die \in Dice :
                                   LET a == attack(objs, self, r.ret[2], roll,
                                                   die, message_log)
                                   IN  /\ objs' = a.objs
                                       /\ message_log' = a.messages
                                       /\ strike' = Struck(objs, self, r.ret[2],
                                                           roll, die)
                            ELSE /\ objs' = r.objs
                                 /\ strike' = NoStrike
                                 /\ UNCHANGED message_log
  /\ sweep_i' = sweep_i + 1
  /\ UNCHANGED last_action_time
  /\ UNCHANGED <<game_state, pc, now, last_move_time, last_enemy_move_time,
                 dungeon_level, levels, grid, explored_tiles, explored_shared,
                 enemies, visible_tiles, fov_call, generator, genrun>>

\* Every enemy has been updated: the frame ends.
SweepEnd ==
  /\ pc = "sweep"
  /\ sweep_i > Len(enemies)
  /\ last_enemy_move_time' = now
  /\ pc' = "events"
  /\ call' = NoCall
  /\ strike' = NoStrike
  /\ UNCHANGED last_action_time
  /\ UNCHANGED <<game_state, now, last_move_time, dungeon_level, levels, objs,
                 grid, explored_tiles, explored_shared, enemies, visible_tiles, fov_call,
                 message_log, sweep_i, generator, genrun>>

\* A session of play: the player acts, takes the stairs, fights.  Within
\* MaxTime the player cannot die, so the game-over screen is left out.
Next ==
  \/ StartScreen
  \/ StartGame
  \/ PlayFrame
  \/ PlayerIdle
  \/ PlayerBlocked
  \/ PlayerMoved
  \/ PlayerAttack
  \/ PlayerDescend
  \/ PlayerAscend
  \/ SweepSkip
  \/ SweepBegin
  \/ EnemyUpdate
  \/ SweepEnd

Spec == Init /\ [][Next]_vars

\* A session left alone: no movement key is held, the goblins come and
\* attack until the player dies, and the space key restarts the game.
IdleStartGame == Start(SlowFrameTimes, MaxIdleTime)

IdlePlayFrame == Frame(SlowFrameTimes, MaxIdleTime)

IdleInput ==
  /\ pc = "input"
  /\ ~PlayerActs(0, 0)
  /\ pc' = "enemies"
  /\ call' = NoCall
  /\ strike' = NoStrike
  /\ UNCHANGED last_action_time
  /\ UNCHANGED <<game_state, now, last_move_time, last_enemy_move_time,
                 dungeon_level, levels, objs, grid, explored_tiles,
                 explored_shared, enemies, visible_tiles, fov_call, message_log, sweep_i,
                 generator, genrun>>

IdleNext ==
  \/ StartScreen
  \/ IdleStartGame
  \/ IdlePlayFrame
  \/ IdleInput
  \/ SweepBegin
  \/ EnemyUpdate
  \/ SweepEnd
  \/ GameOverScreen
  \/ Restart

IdleSpec == Init /\ [][IdleNext]_vars

\* ----------------------------------------------- generate, step by step ---
\* A CaveGenerator on its own: generate is called again and again, and runs
\* one statement at a time on self.grid.
SessionVars ==
  <<game_state, pc, now, last_move_time, last_enemy_move_time, dungeon_level,
    levels, objs, grid, explored_tiles, explored_shared, enemies,
    visible_tiles, fov_call, message_log, sweep_i, call, strike, last_action_time>>

\* The sizes of the generators: the smallest grid with an interior, the map
\* of the session and a map wide enough for two caves.
GenSizes == {<<3, 3>>, <<MAP_WIDTH, MAP_HEIGHT>>, <<GenCols, GenRows>>}

\* CaveGenerator.__init__: the grid is np.zeros((cols, rows)).
CaveGenerator(cols, rows) ==
  [cols |-> cols, rows |-> rows,
   grid |-> Array([c \in Cells(cols, rows) |-> FLOOR])]

GenInit ==
  /\ \E size \in GenSizes : generator = CaveGenerator(size[1], size[2])
  /\ genrun = GenIdle
  /\ game_state = STATE_START
  /\ pc = "generator"
  /\ now = 0
  /\ last_move_time = 0
  /\ last_enemy_move_time = 0
  /\ dungeon_level = 1
  /\ levels = NoLevels
  /\ objs = <<>>
  /\ grid = <<>>
  /\ explored_tiles = {}
  /\ explored_shared = FALSE
  /\ enemies = <<>>
  /\ visible_tiles = {}
  /\ fov_call = NoFov
  /\ message_log = <<>>
  /\ sweep_i = 1
  /\ call = NoCall
  /\ strike = NoStrike
  /\ last_action_time = NoTime

\* generate(level_depth) is called; step 1, the random noise.
GenerateNoise ==
  /\ genrun.pc \in {"idle", "returned"}
  /\ \E level_depth \in 1 .. MaxDepth, noise \in Noise(generator.cols, generator.rows) :
       /\ generator' = [generator EXCEPT !.grid = noise]
       /\ genrun' = [GenIdle EXCEPT !.pc = "border", !.level_depth = level_depth]
  /\ UNCHANGED SessionVars

\* Step 2, the border.
GenerateBorder ==
  /\ genrun.pc = "border"
  /\ generator' = [generator EXCEPT
                     !.grid = EnforceBorder(generator.grid, generator.cols,
                                            generator.rows)]
  /\ genrun' = [genrun EXCEPT !.pc = "smooth"]
  /\ UNCHANGED SessionVars

\* Step 3, one of the five calls of smooth.
GenerateSmooth ==
  /\ genrun.pc = "smooth"
  /\ genrun.smoothed < FILL_ITERATIONS
  /\ generator' = [generator EXCEPT
                     !.grid = smooth(generator.grid, generator.cols,
                                     generator.rows)]
  /\ genrun' = [genrun EXCEPT !.smoothed = genrun.smoothed + 1]
  /\ UNCHANGED SessionVars

\* Step 4, the pruning.
GeneratePrune ==
  /\ genrun.pc = "smooth"
  /\ genrun.smoothed = FILL_ITERATIONS
  /\ generator' = [generator EXCEPT
                     !.grid = prune_small_regions(generator.grid, generator.cols,
                                                  generator.rows)]
  /\ genrun' = [genrun EXCEPT !.pc = "down"]
  /\ UNCHANGED SessionVars

\* Step 5, the down stairs.
GenerateDownStairs ==
  /\ genrun.pc = "down"
  /\ \E down \in get_random_floor_point(generator.grid, generator.cols,
                                        generator.rows, GenPick) :
       /\ generator' = [generator EXCEPT !.grid = PlaceDown(generator.grid, down)]
       /\ genrun' = [genrun EXCEPT !.pc = "up", !.down = down]
  /\ UNCHANGED SessionVars

\* Step 5 below level 1: the up stairs, on a point that is not the down stairs.
GenerateUpStairs ==
  /\ genrun.pc = "up"
  /\ genrun.level_depth > 1
  /\ \E up \in UpStairsPoints(generator.grid, generator.cols, generator.rows,
                              genrun.down, GenPick) :
       /\ generator' = [generator EXCEPT !.grid = PlaceUp(generator.grid, up)]
       /\ genrun' = [genrun EXCEPT !.pc = "returned", !.up = up]
  /\ UNCHANGED SessionVars

\* Step 5 below level 1, when every pick is the down stairs: the loop goes on.
GenerateUpStairsAgain ==
  /\ genrun.pc = "up"
  /\ genrun.level_depth > 1
  /\ UpStairsPoints(generator.grid, generator.cols, generator.rows,
                    genrun.down, GenPick) = {}
  /\ genrun' = [genrun EXCEPT !.pc = "hung"]
  /\ UNCHANGED <<generator, SessionVars>>

\* Step 5 on level 1: the spawn point.
GenerateSpawn ==
  /\ genrun.pc = "up"
  /\ genrun.level_depth = 1
  /\ \E up \in get_random_floor_point(generator.grid, generator.cols,
                                      generator.rows, GenPick) :
       genrun' = [genrun EXCEPT !.pc = "returned", !.up = up]
  /\ UNCHANGED <<generator, SessionVars>>

\* What generate has returned: self.grid.copy(), (up_x, up_y), (down_x, down_y).
Returned ==
  [grid |-> generator.grid, up_pos |-> genrun.up, down_pos |-> genrun.down]

GenNext ==
  \/ GenerateNoise
  \/ GenerateBorder
  \/ GenerateSmooth
  \/ GeneratePrune
  \/ GenerateDownStairs
  \/ GenerateUpStairs
  \/ GenerateUpStairsAgain
  \/ GenerateSpawn

GenSpec == GenInit /\ [][GenNext]_vars

\* --------------------------------------------------- try_move, alone ---
\* try_move on every small input: a grid with one cell of any type among
\* Floor cells, the player and a goblin (alive or dead) anywhere on it, the
\* player or the goblin as the caller, any direction.
CellTypes == {FLOOR, WALL, STAIRS_DOWN, STAIRS_UP}

MoveGrids ==
  {Array([c \in Cells(MoveCols, MoveRows) |-> IF c = s THEN t ELSE FLOOR]) :
     s \in Cells(MoveCols, MoveRows), t \in CellTypes}

MoveInit ==
  /\ grid \in MoveGrids
  /\ \E p \in Cells(MoveCols, MoveRows), q \in Cells(MoveCols, MoveRows),
        hp \in {0, 10} :
       objs = (PLAYER :> Player(p[1], p[2]))
                @@ (1 :> [Goblin(q[1], q[2]) EXCEPT !.hp = hp])
  /\ enemies = <<1>>
  /\ call = NoCall
  /\ strike = NoStrike
  /\ last_action_time = NoTime
  /\ generator = CaveGenerator(MoveCols, MoveRows)
  /\ genrun = GenIdle
  /\ game_state = STATE_PLAYING
  /\ pc = "try_move"
  /\ now = 0
  /\ last_move_time = 0
  /\ last_enemy_move_time = 0
  /\ dungeon_level = 1
  /\ levels = NoLevels
  /\ explored_tiles = {}
  /\ explored_shared = FALSE
  /\ visible_tiles = {}
  /\ fov_call = NoFov
  /\ message_log = <<>>
  /\ sweep_i = 1

\* self.try_move(dx, dy, grid, enemies + [player])
TryMove ==
  /\ \E self \in DOMAIN objs, d \in Directions :
       LET r == try_move(objs, self, d[1], d[2], grid, enemies \o <<PLAYER>>)
       IN  /\ call' = Called(objs, self, d[1], d[2], r)
           /\ strike' = NoStrike
           /\ UNCHANGED last_action_time
           /\ objs' = r.objs
  /\ UNCHANGED <<game_state, pc, now, last_move_time, last_enemy_move_time,
                 dungeon_level, levels, grid, explored_tiles, explored_shared,
                 enemies, visible_tiles, fov_call, message_log, sweep_i, generator,
                 genrun>>

MoveNext == TryMove

MoveSpec == MoveInit /\ [][MoveNext]_vars

\* ------------------------------------------------------ attack, alone ---
\* attack on small inputs: two entities side by side, either one the
\* attacker, any strength, armour class and hp of the sets below, a log that
\* is empty or full, every roll of the d20 and of the d6.
Strengths == {-7, 1, 3}

ArmorClasses == {12, 14}

HitPoints == {0, 1, 10}

FullLog == [i \in 1 .. LOG_CAPACITY |-> <<"Welcome">>]

AttackInit ==
  /\ \E s \in [{PLAYER, 1} -> Strengths], a \in [{PLAYER, 1} -> ArmorClasses],
        h \in [{PLAYER, 1} -> HitPoints] :
       objs = (PLAYER :> [Player(1, 1) EXCEPT !.strength = s[PLAYER],
                                              !.ac = a[PLAYER], !.hp = h[PLAYER]])
                @@ (1 :> [Goblin(2, 1) EXCEPT !.strength = s[1], !.ac = a[1],
                                              !.hp = h[1]])
  /\ message_log \in {<<>>, FullLog}
  /\ grid = CaveGenerator(MoveCols, MoveRows).grid
  /\ generator = CaveGenerator(MoveCols, MoveRows)
  /\ enemies = <<1>>
  /\ call = NoCall
  /\ strike = NoStrike
  /\ last_action_time = NoTime
  /\ genrun = GenIdle
  /\ game_state = STATE_PLAYING
  /\ pc = "attack"
  /\ now = 0
  /\ last_move_time = 0
  /\ last_enemy_move_time = 0
  /\ dungeon_level = 1
  /\ levels = NoLevels
  /\ explored_tiles = {}
  /\ explored_shared = FALSE
  /\ visible_tiles = {}
  /\ fov_call = NoFov
  /\ sweep_i = 1

\* self.attack(target, message_log), once.
Attack ==
  /\ pc = "attack"
  /\ \E self \in DOMAIN objs, target \in DOMAIN objs, roll \in D20, die \in D6 :
       LET a == attack(objs, self, target, roll, die, message_log)
       IN  /\ self # target
           /\ objs' = a.objs
           /\ message_log' = a.messages
           /\ strike' = Struck(objs, self, target, roll, die)
           /\ UNCHANGED last_action_time
  /\ pc' = "attacked"
  /\ UNCHANGED <<game_state, now, last_move_time, last_enemy_move_time,
                 dungeon_level, levels, grid, explored_tiles, explored_shared,
                 enemies, visible_tiles, fov_call, sweep_i, call, generator, genrun>>

AttackNext == Attack

AttackSpec == AttackInit /\ [][AttackNext]_vars

\* ------------------------------------------- CaveGenerator.__init__ ---
\* The constructor on its own, called with any cols, rows and fill
\* probability of the sets below; the probability is in hundredths.
ConstructCols == -1 .. 4

ConstructRows == -1 .. 4

FillProbs == {-10, 0, 45, 100, 150}

\* CaveGenerator(cols, rows, fill_prob): the fields are stored as given;
\* the only error is numpy's, np.zeros with a negative dimension.
Construct(cols, rows, fill_prob) ==
  IF cols < 0 \/ rows < 0
  THEN [raised |-> "ValueError", cols |-> cols, rows |-> rows,
        fill_prob |-> fill_prob, grid |-> <<>>]
  ELSE [raised |-> "None", cols |-> cols, rows |-> rows,
        fill_prob |-> fill_prob,
        grid |-> Array([c \in Cells(cols, rows) |-> FLOOR])]

\* Before the call the generator holds the arguments of the call.
ConstructInit ==
  /\ \E cols \in ConstructCols, rows \in ConstructRows, fill_prob \in FillProbs :
       generator = [raised |-> "None", cols |-> cols, rows |-> rows,
                    fill_prob |-> fill_prob, grid |-> <<>>]
  /\ pc = "construct"
  /\ genrun = GenIdle
  /\ game_state = STATE_START
  /\ now = 0
  /\ last_move_time = 0
  /\ last_enemy_move_time = 0
  /\ dungeon_level = 1
  /\ levels = NoLevels
  /\ objs = <<>>
  /\ grid = <<>>
  /\ explored_tiles = {}
  /\ explored_shared = FALSE
  /\ enemies = <<>>
  /\ visible_tiles = {}
  /\ fov_call = NoFov
  /\ message_log = <<>>
  /\ sweep_i = 1
  /\ call = NoCall
  /\ strike = NoStrike
  /\ last_action_time = NoTime

ConstructGenerator ==
  /\ pc = "construct"
  /\ generator' = Construct(generator.cols, generator.rows, generator.fill_prob)
  /\ pc' = IF generator'.raised = "None" THEN "constructed" ELSE "raised"
  /\ UNCHANGED <<game_state, now, last_move_time, last_enemy_move_time,
                 dungeon_level, levels, objs, grid, explored_tiles,
                 explored_shared, enemies, visible_tiles, fov_call, message_log, sweep_i,
                 call, strike, last_action_time, genrun>>

ConstructNext == ConstructGenerator

ConstructSpec == ConstructInit /\ [][ConstructNext]_vars

\* -------------------------------------------------- compute_fov, alone ---
\* compute_fov on maps of Floor with at most MaxWalls Wall cells, from every
\* origin of the map, with every radius from 0 to MaxRadius.
MaxWalls == 1

MaxRadius == 2

\* The sets of at most n cells of the map.
RECURSIVE WallSets(_)
WallSets(n) ==
  IF n = 0 THEN {{}}
  ELSE WallSets(n - 1)
         \cup {w \cup {c} : w \in WallSets(n - 1),
                            c \in Cells(MAP_WIDTH, MAP_HEIGHT)}

FovGrids ==
  {Array([c \in Cells(MAP_WIDTH, MAP_HEIGHT) |->
            IF c \in w THEN WALL ELSE FLOOR]) : w \in WallSets(MaxWalls)}

\* Before the call fov_call holds the arguments of the call.
FovInit ==
  /\ grid \in FovGrids
  /\ \E origin \in Cells(MAP_WIDTH, MAP_HEIGHT), radius \in 0 .. MaxRadius :
       /\ fov_call = FovCall(origin, radius)
       /\ objs = (PLAYER :> Player(origin[1], origin[2]))
  /\ pc = "compute_fov"
  /\ visible_tiles = {}
  /\ generator = CaveGenerator(MAP_WIDTH, MAP_HEIGHT)
  /\ genrun = GenIdle
  /\ game_state = STATE_PLAYING
  /\ now = 0
  /\ last_move_time = 0
  /\ last_enemy_move_time = 0
  /\ dungeon_level = 1
  /\ levels = NoLevels
  /\ explored_tiles = {}
  /\ explored_shared = FALSE
  /\ enemies = <<>>
  /\ message_log = <<>>
  /\ sweep_i = 1
  /\ call = NoCall
  /\ strike = NoStrike
  /\ last_action_time = NoTime

\* visible_tiles = compute_fov(origin_x, origin_y, radius, grid)
ComputeFov ==
  /\ pc = "compute_fov"
  /\ visible_tiles' = compute_fov(fov_call.origin_x, fov_call.origin_y,
                                  fov_call.radius, grid)
  /\ pc' = "computed"
  /\ UNCHANGED <<game_state, now, last_move_time, last_enemy_move_time,
                 dungeon_level, levels, objs, grid, explored_tiles,
                 explored_shared, enemies, fov_call, message_log, sweep_i,
                 call, strike, last_action_time, generator, genrun>>

FovNext == ComputeFov

FovSpec == FovInit /\ [][FovNext]_vars

\* ------------------------------------------------------ smooth, alone ---
\* smooth on every grid of Floor and Wall cells of 3 to SmoothCols columns
\* and 3 to SmoothRows rows, the border included.
SmoothCols == 4

SmoothRows == 4

SmoothSizes == (3 .. SmoothCols) \X (3 .. SmoothRows)

SmoothInit ==
  /\ \E size \in SmoothSizes :
       \E g \in [Cells(size[1], size[2]) -> {FLOOR, WALL}] :
         generator = [cols |-> size[1], rows |-> size[2], grid |-> g]
  /\ pc = "smooth"
  /\ genrun = GenIdle
  /\ game_state = STATE_START
  /\ now = 0
  /\ last_move_time = 0
  /\ last_enemy_move_time = 0
  /\ dungeon_level = 1
  /\ levels = NoLevels
  /\ objs = <<>>
  /\ grid = <<>>
  /\ explored_tiles = {}
  /\ explored_shared = FALSE
  /\ enemies = <<>>
  /\ visible_tiles = {}
  /\ fov_call = NoFov
  /\ message_log = <<>>
  /\ sweep_i = 1
  /\ call = NoCall
  /\ strike = NoStrike
  /\ last_action_time = NoTime

\* self.smooth()
Smooth ==
  /\ pc = "smooth"
  /\ generator' = [generator EXCEPT
                     !.grid = smooth(generator.grid, generator.cols,
                                     generator.rows)]
  /\ pc' = "smoothed"
  /\ UNCHANGED <<game_state, now, last_move_time, last_enemy_move_time,
                 dungeon_level, levels, objs, grid, explored_tiles,
                 explored_shared, enemies, visible_tiles, fov_call,
                 message_log, sweep_i, call, strike, last_action_time,
                 genrun>>

SmoothNext == Smooth

SmoothSpec == SmoothInit /\ [][SmoothNext]_vars

\* ----------------------------------------- prune_small_regions, alone ---
\* prune_small_regions on every grid of Floor and Wall cells of 3 to
\* PruneCols columns and 3 to PruneRows rows.
PruneCols == 4

PruneRows == 4

PruneSizes == (3 .. PruneCols) \X (3 .. PruneRows)

PruneInit ==
  /\ \E size \in PruneSizes :
       \E g \in [Cells(size[1], size[2]) -> {FLOOR, WALL}] :
         generator = [cols |-> size[1], rows |-> size[2], grid |-> g]
  /\ pc = "prune"
  /\ genrun = GenIdle
  /\ game_state = STATE_START
  /\ now = 0
  /\ last_move_time = 0
  /\ last_enemy_move_time = 0
  /\ dungeon_level = 1
  /\ levels = NoLevels
  /\ objs = <<>>
  /\ grid = <<>>
  /\ explored_tiles = {}
  /\ explored_shared = FALSE
  /\ enemies = <<>>
  /\ visible_tiles = {}
  /\ fov_call = NoFov
  /\ message_log = <<>>
  /\ sweep_i = 1
  /\ call = NoCall
  /\ strike = NoStrike
  /\ last_action_time = NoTime

\* self.prune_small_regions()
Prune ==
  /\ pc = "prune"
  /\ generator' = [generator EXCEPT
                     !.grid = prune_small_regions(generator.grid,
                                                  generator.cols,
                                                  generator.rows)]
  /\ pc' = "pruned"
  /\ UNCHANGED <<game_state, now, last_move_time, last_enemy_move_time,
                 dungeon_level, levels, objs, grid, explored_tiles,
                 explored_shared, enemies, visible_tiles, fov_call,
                 message_log, sweep_i, call, strike, last_action_time,
                 genrun>>

PruneNext == Prune

PruneSpec == PruneInit /\ [][PruneNext]_vars

\* ------------------------------------------------------------- claims ---
Roster == {enemies[i] : i \in 1 .. Len(enemies)}

\* The live entities of the active depth: the player and the roster, hp > 0.
LiveEntities == {e \in {PLAYER} \cup Roster : objs[e].hp > 0}

\* C1: in every reachable state of a session, no two distinct entities with
\* hp > 0 on the active depth (the player and the monsters of its roster)
\* have the same position.
C1_NoSharedCell ==
  pc # "hung" =>
    \A a \in LiveEntities, b \in LiveEntities :
      a # b => Position(objs[a]) # Position(objs[b])

FloorRegions(g) ==
  get_regions(g, generator.cols, generator.rows, FLOOR)

\* C2: on every grid that generate returns, get_regions(0) finds exactly one
\* 4-connected region of Floor cells.
C2_OneFloorRegion ==
  genrun.pc = "returned" => Len(FloorRegions(Returned.grid)) = 1

CellsOf(g, cell_type) == {c \in DOMAIN g : g[c] = cell_type}

\* The stairs of a level of depth d: one StairsDown cell, at down_pos; no
\* StairsUp cell on depth 1; below, one StairsUp cell, at up_pos, which is not
\* down_pos.
StairsPlaced(lvl, d) ==
  /\ CellsOf(lvl.grid, STAIRS_DOWN) = {lvl.down_pos}
  /\ IF d = 1
     THEN CellsOf(lvl.grid, STAIRS_UP) = {}
     ELSE /\ CellsOf(lvl.grid, STAIRS_UP) = {lvl.up_pos}
          /\ lvl.up_pos # lvl.down_pos

\* C3: every grid that generate returns for a depth d, and every grid stored
\* for a depth d, has exactly one StairsDown cell, at down_pos; no StairsUp
\* cell when d = 1; exactly one StairsUp cell, at up_pos and not at down_pos,
\* when d > 1.
C3_StairsPlaced ==
  /\ genrun.pc = "returned" => StairsPlaced(Returned, genrun.level_depth)
  /\ \A d \in DOMAIN levels : StairsPlaced(levels[d], d)

\* A level below the first has been returned, with its two stairs, on the
\* wide map.
C3_Witness ==
  /\ genrun.pc = "returned"
  /\ genrun.level_depth > 1
  /\ generator.cols = GenCols
  /\ CellsOf(Returned.grid, FLOOR) # {}
  /\ StairsPlaced(Returned, genrun.level_depth)

BorderRing(cols, rows) ==
  {c \in Cells(cols, rows) :
     c[1] = 0 \/ c[1] = cols - 1 \/ c[2] = 0 \/ c[2] = rows - 1}

\* C4: on every grid that generate returns (cols >= 3, rows >= 3), every
\* cell of the first and last column and of the first and last row is Wall.
C4_BorderIsWall ==
  genrun.pc = "returned" =>
    \A c \in BorderRing(generator.cols, generator.rows) :
      Returned.grid[c] = WALL

\* generate has returned a grid without a Floor cell on the smallest map:
\* the down stairs are on the centre, by the fallback, and the border is Wall.
C4_Witness ==
  /\ genrun.pc = "returned"
  /\ generator.cols = 3
  /\ generator.rows = 3
  /\ genrun.down = <<1, 1>>
  /\ Returned.grid[<<1, 1>>] = STAIRS_DOWN
  /\ \A c \in BorderRing(3, 3) : Returned.grid[c] = WALL

\* A full restart: the space key on the game-over screen.
RestartStep == game_state = STATE_GAME_OVER /\ pc = "events"

Logged(text) == \E i \in 1 .. Len(message_log) : message_log[i] = text

\* The stored level d keeps its grid and its stairs over the step.
LevelKept(d) ==
  /\ d \in DOMAIN levels'
  /\ levels'[d].grid = levels[d].grid
  /\ levels'[d].up_pos = levels[d].up_pos
  /\ levels'[d].down_pos = levels[d].down_pos

\* C5: once the LevelState of a depth exists, no step other than a full
\* restart changes its grid, its up_pos or its down_pos (the generation of
\* another depth included), and a step that arrives at a depth already stored
\* runs no generation: the generator's grid is untouched and the stored grid
\* becomes the grid in use.
C5_StoredLevelFixed ==
  [][RestartStep
     \/ /\ \A d \in DOMAIN levels : LevelKept(d)
        /\ (dungeon_level' # dungeon_level /\ dungeon_level' \in DOMAIN levels)
             => /\ generator' = generator
                /\ grid' = levels[dungeon_level'].grid]_vars

\* The player has come back up and gone down again: depth 2 was entered a
\* second time, from the store, with depth 1 stored beside it.
C5_Witness ==
  /\ dungeon_level = 2
  /\ pc = "enemies"
  /\ call.ret = <<"stairs_down">>
  /\ Logged(<<"You", "ascend", 1>>)
  /\ levels[1].grid # levels[2].grid

\* The explored set in use for the depth d: main's own while d is the active
\* depth, the stored one otherwise.
ExploredInUse(lv, active, explored, d) ==
  IF d = active THEN explored ELSE lv[d].explored_tiles

\* C6: the visible set is always inside the explored set of the active depth,
\* and no step other than a full restart takes a tile out of the explored set
\* in use for a depth, departures and returns included.
C6_ExploredGrows ==
  /\ [](visible_tiles \subseteq explored_tiles)
  /\ [][RestartStep
        \/ \A d \in DOMAIN levels \cap DOMAIN levels' :
             ExploredInUse(levels, dungeon_level, explored_tiles, d)
               \subseteq ExploredInUse(levels', dungeon_level', explored_tiles', d)]_vars

\* Back on depth 1 after a visit to depth 2, the player has moved on: the
\* explored set holds more than what is visible now.
C6_Witness ==
  /\ dungeon_level = 1
  /\ 2 \in DOMAIN levels
  /\ call.self = PLAYER
  /\ call.ret = <<"True">>
  /\ visible_tiles \subseteq explored_tiles
  /\ explored_tiles # visible_tiles
  /\ levels[2].explored_tiles # {}

RosterOf(lv, d) == {lv[d].enemies[i] : i \in 1 .. Len(lv[d].enemies)}

\* The monsters of the stored roster of d are the same objects, unchanged.
RosterUntouched(d) ==
  \A e \in RosterOf(levels, d) : e \in DOMAIN objs' /\ objs'[e] = objs[e]

\* C7: over a step during which d is not the active depth, the stored
\* LevelState of d (roster, explored set) and every monster of its roster
\* (position, hp) are unchanged; the step that leaves d stores the roster and
\* explored set as they are; the step that returns to d loads the stored
\* roster, monsters and explored set.
C7_InactiveLevelFrozen ==
  [][RestartStep
     \/ \A d \in DOMAIN levels :
          /\ (d # dungeon_level /\ d # dungeon_level')
               => /\ d \in DOMAIN levels'
                  /\ levels'[d] = levels[d]
                  /\ RosterUntouched(d)
          /\ (d = dungeon_level /\ d # dungeon_level')
               => /\ d \in DOMAIN levels'
                  /\ levels'[d].enemies = enemies
                  /\ levels'[d].enemies = levels[d].enemies
                  /\ levels'[d].explored_tiles = explored_tiles
                  /\ RosterUntouched(d)
          /\ (d # dungeon_level /\ d = dungeon_level')
               => /\ enemies' = levels[d].enemies
                  /\ levels'[d].enemies = levels[d].enemies
                  /\ explored_tiles' = levels[d].explored_tiles \cup visible_tiles'
                  /\ RosterUntouched(d)]_vars

\* The enemies of depth 2 are being updated while depth 1, with a goblin in
\* its roster, is stored.
C7_Witness ==
  /\ dungeon_level = 2
  /\ pc = "sweep"
  /\ sweep_i > 1
  /\ call # NoCall
  /\ levels[1].enemies # <<>>
  /\ levels[1].enemies # enemies

PlayerCalled(ret) == call'.self = PLAYER /\ call'.ret = ret

\* C8: when the player's try_move returns "stairs_down" the depth grows by
\* one, the explored set is saved in the level left and the player stands on
\* the up_pos of the level entered, new or stored; when it returns
\* "stairs_up" below depth 1 the depth shrinks by one, the explored set is
\* saved and the player stands on the down_pos of the level entered; on
\* depth 1 "stairs_up" changes neither the depth nor the player; the depth
\* never changes otherwise.  (Nothing is said of a descent whose generation
\* never ends.)
C8_StairsTransition ==
  [][RestartStep
     \/ /\ PlayerCalled(<<"stairs_down">>)
             => /\ dungeon_level' = dungeon_level + 1
                /\ levels'[dungeon_level].explored_tiles = explored_tiles
                /\ pc' # "hung"
                     => /\ dungeon_level' \in DOMAIN levels'
                        /\ Position(objs'[PLAYER]) = levels'[dungeon_level'].up_pos
                        /\ grid' = levels'[dungeon_level'].grid
        /\ (PlayerCalled(<<"stairs_up">>) /\ dungeon_level > 1)
             => /\ dungeon_level' = dungeon_level - 1
                /\ levels'[dungeon_level].explored_tiles = explored_tiles
                /\ Position(objs'[PLAYER]) = levels'[dungeon_level'].down_pos
                /\ grid' = levels'[dungeon_level'].grid
        /\ (PlayerCalled(<<"stairs_up">>) /\ dungeon_level = 1)
             => dungeon_level' = 1 /\ objs' = objs
        /\ dungeon_level' # dungeon_level
             => \/ PlayerCalled(<<"stairs_down">>)
                \/ PlayerCalled(<<"stairs_up">>)]_vars

\* The player has just climbed from depth 2 to the down stairs of depth 1.
C8_Witness ==
  /\ dungeon_level = 1
  /\ pc = "enemies"
  /\ call.self = PLAYER
  /\ call.ret = <<"stairs_up">>
  /\ Logged(<<"You", "descend", 2>>)
  /\ Position(objs[PLAYER]) = levels[1].down_pos

\* The destination of the try_move call the step has made.
Destination == <<call'.pos[1] + call'.dx, call'.pos[2] + call'.dy>>

EntityList == {PLAYER} \cup Roster

\* The entities of the list other than the caller that stand on the
\* destination before the call.
Occupants ==
  {e \in EntityList : e # call'.self /\ Position(objs[e]) = Destination}

\* C9: a try_move of the player or of a monster whose destination is outside
\* the grid or a Wall cell returns False, and the step that makes it changes
\* no entity (position, hp), nor the grid, the stored levels, the rosters,
\* the active depth, the explored and visible sets or the message log.
C9_BlockedChangesNothing ==
  [][(/\ call' # NoCall
      /\ \/ ~InGrid(Destination, generator.cols, generator.rows)
         \/ grid[Destination] = WALL)
       => /\ call'.ret = <<"False">>
          /\ call'.new_pos = call'.pos
          /\ objs' = objs
          /\ grid' = grid
          /\ levels' = levels
          /\ enemies' = enemies
          /\ dungeon_level' = dungeon_level
          /\ explored_tiles' = explored_tiles
          /\ visible_tiles' = visible_tiles
          /\ message_log' = message_log]_vars

\* A goblin of the roster has just walked into a Wall cell and stands where
\* it stood.
C9_Witness ==
  /\ pc = "sweep"
  /\ call.self \in Roster
  /\ call.ret = <<"False">>
  /\ grid[<<call.pos[1] + call.dx, call.pos[2] + call.dy>>] = WALL
  /\ Position(objs[call.self]) = call.pos

\* The result the fixed order of rules gives the call of the step.
Classified ==
  IF ~InGrid(Destination, generator.cols, generator.rows) THEN "Blocked"
  ELSE IF grid[Destination] = WALL THEN "Blocked"
  ELSE IF grid[Destination] \in {STAIRS_DOWN, STAIRS_UP} THEN "UsedStairs"
  ELSE IF Occupants # {} THEN "Collided"
  ELSE "Moved"

\* C10: every try_move call returns what the first matching rule of
\* (1) out of bounds, (2) Wall, (3) stairs, (4) occupied, (5) free gives:
\* False for (1) and (2), the name of the stairs for (3), an entity standing
\* on the destination for (4), True for (5); the caller is on the
\* destination after (5) and where it was otherwise, so that it never comes
\* to stand on a stairs cell, and no other entity is moved.
C10_FixedOrder ==
  [][call' # NoCall
       => /\ Classified = "Blocked" => call'.ret = <<"False">>
          /\ Classified = "UsedStairs"
               => call'.ret = IF grid[Destination] = STAIRS_DOWN
                              THEN <<"stairs_down">> ELSE <<"stairs_up">>
          /\ Classified = "Collided"
               => /\ call'.ret[1] = "Entity"
                  /\ call'.ret[2] \in Occupants
          /\ Classified = "Moved" => call'.ret = <<"True">>
          /\ call'.new_pos = IF Classified = "Moved" THEN Destination
                             ELSE call'.pos
          /\ call'.new_pos # call'.pos
               => grid[call'.new_pos] \notin {STAIRS_DOWN, STAIRS_UP}
          /\ \A e \in EntityList \ {call'.self} :
               Position(objs'[e]) = Position(objs[e])]_vars

\* The caller has stepped toward a stairs cell on which the other entity
\* stands: the call has returned the stairs, and nobody has moved.
C10_Witness ==
  /\ call # NoCall
  /\ call.ret \in {<<"stairs_down">>, <<"stairs_up">>}
  /\ \E e \in EntityList :
       /\ e # call.self
       /\ Position(objs[e]) = <<call.pos[1] + call.dx, call.pos[2] + call.dy>>
  /\ Position(objs[call.self]) = call.pos

\* The damage of the attack of the step: max(1, d6 + strength).
Damage ==
  IF strike'.die + objs[strike'.self].strength > 1
  THEN strike'.die + objs[strike'.self].strength
  ELSE 1

Hits == strike'.roll + objs[strike'.self].strength >= objs[strike'.target].ac

\* C11: an attack with the d20 roll r and the d6 roll d hits iff
\* r + attacker.strength >= defender.ac; a hit takes exactly
\* max(1, d + attacker.strength) >= 1 from the defender's hp, a miss leaves
\* it; the attacker's hp and both positions are unchanged either way.
C11_AttackResolution ==
  [][strike' # NoStrike
       => /\ Hits => objs'[strike'.target].hp = objs[strike'.target].hp - Damage
          /\ Hits => Damage >= 1
          /\ ~Hits => objs'[strike'.target].hp = objs[strike'.target].hp
          /\ objs'[strike'.self].hp = objs[strike'.self].hp
          /\ Position(objs'[strike'.self]) = Position(objs[strike'.self])
          /\ Position(objs'[strike'.target]) = Position(objs[strike'.target])]_vars

\* Strength 3, roll 15, armour class 12, d6 = 4: the defender has lost 7.
C11_Witness ==
  /\ strike # NoStrike
  /\ strike.roll = 15
  /\ strike.die = 4
  /\ objs[strike.self].strength = 3
  /\ objs[strike.target].ac = 12
  /\ objs[strike.target].hp = strike.hp - 7

\* C12: every call of attack, whether it misses, hits or kills, appends
\* exactly one entry to the message log: the log after the call is the log
\* before it with one add_message.
C12_OneLogEntry ==
  [][strike' # NoStrike
       => /\ message_log' # <<>>
          /\ message_log' =
               add_message(message_log, message_log'[Len(message_log')])]_vars

\* C13: no attack is resolved against a defender whose hp is already <= 0,
\* by the player or by a monster, and no monster whose hp is <= 0 calls
\* try_move or attack.
C13_NoDeadDefender ==
  [][/\ strike' # NoStrike
          => /\ strike'.hp > 0
             /\ objs[strike'.self].hp > 0
     /\ (call' # NoCall /\ call'.self # PLAYER)
          => objs[call'.self].hp > 0]_vars

\* The step is an accepted player action: a move, an attack or a stair
\* transition.
AcceptedAction ==
  /\ call'.self = PLAYER
  /\ \/ call'.ret = <<"True">>
     \/ call'.ret[1] = "Entity"
     \/ call'.ret = <<"stairs_down">>
     \/ call'.ret = <<"stairs_up">> /\ dungeon_level > 1

\* C14: an accepted player action (a move, an attack or a stair transition)
\* comes more than MOVE_DELAY milliseconds of clock time after the accepted
\* player action before it.
C14_ActionsApart ==
  [][(AcceptedAction /\ last_action_time # NoTime)
       => now' - last_action_time > MOVE_DELAY]_vars

\* C15: every try_move call of the player has dx = 0 or dy = 0, and no
\* player action changes both coordinates of the player.
C15_OneAxis ==
  [][call'.self = PLAYER
       => /\ call'.dx = 0 \/ call'.dy = 0
          /\ \/ call'.new_pos[1] = call'.pos[1]
             \/ call'.new_pos[2] = call'.pos[2]]_vars

Centre == <<generator.cols \div 2, generator.rows \div 2>>

\* C16: every call of generate returns, for every depth and every grid that
\* noise, smoothing and pruning leave: it never enters a retry loop that
\* cannot end; and when that grid has no Floor cell the down stairs, and then
\* the up stairs or spawn point, are put on the centre of the grid.
C16_GenerateTerminates ==
  [][/\ genrun'.pc # "hung"
     /\ (genrun.pc = "down" /\ CellsOf(generator.grid, FLOOR) = {})
          => genrun'.down = Centre
     /\ (genrun.pc = "up" /\ genrun'.pc = "returned"
           /\ CellsOf(generator.grid, FLOOR) = {})
          => genrun'.up = Centre]_vars

\* C17: constructing a CaveGenerator with a fill probability <= 0 or >= 1,
\* or with cols < 3 or rows < 3, raises an error in the constructor: no
\* generator object with such parameters comes to exist.
C17_ConstructorValidates ==
  [][(/\ pc = "construct"
      /\ \/ generator.fill_prob <= 0
         \/ generator.fill_prob >= 100
         \/ generator.cols < 3
         \/ generator.rows < 3)
       => pc' = "raised"]_vars

\* The roster of the formula at depth d: its size (capped like every roster
\* here), and the statistics of each of its monsters.
FormulaSize(d) == Min(10 + 2 * d, MaxRoster)

FormulaMonster(e, d) ==
  /\ objs[e].max_hp = 10 + d
  /\ objs[e].strength = 1 + (d \div 3)

\* The step generates a depth for the first time, or again after a restart.
FirstGenerated ==
  /\ pc' # "hung"
  /\ \/ RestartStep /\ game_state' = STATE_PLAYING
     \/ dungeon_level' \notin DOMAIN levels /\ dungeon_level' \in DOMAIN levels'

\* C18: at every depth d >= 1, depth 1 included, the roster made when d is
\* first generated has 10 + 2d monsters, each with hp = max_hp = 10 + d and
\* strength = 1 + floor(d / 3); the same after a restart.  max_hp and strength
\* never change afterwards, so every monster of the active roster has them.
C18_RosterFormula ==
  /\ [](\A e \in Roster : FormulaMonster(e, dungeon_level))
  /\ [][FirstGenerated =>
          /\ Len(enemies') = FormulaSize(dungeon_level')
          /\ \A i \in 1 .. Len(enemies') :
               objs'[enemies'[i]].hp = 10 + dungeon_level']_vars

\* The monster updated before this one in the sweep moved, and this one
\* steps toward the cell it moved to.
SameCellStep ==
  /\ pc = "sweep"
  /\ sweep_i > 1
  /\ call # NoCall
  /\ call.self # PLAYER
  /\ call.ret = <<"True">>
  /\ call' # NoCall
  /\ call'.self # call.self
  /\ Destination = call.new_pos

\* The earlier monster stays on the cell; the later one collides with an
\* entity of the cell and attacks it, or is blocked.
LaterCollides ==
  /\ Position(objs'[call.self]) = call.new_pos
  /\ \/ /\ call'.ret[1] = "Entity"
        /\ call'.ret[2] \in Occupants
        /\ strike' # NoStrike
        /\ strike'.self = call'.self
        /\ strike'.target = call'.ret[2]
     \/ call'.ret = <<"False">>
  /\ call'.new_pos = call'.pos

SweepOver == pc = "sweep" /\ sweep_i > Len(enemies)

\* C19: in a sweep the monsters are resolved in roster order against the
\* positions the earlier monsters have already taken: a monster that steps
\* toward the cell an earlier one has just moved to collides with it and
\* attacks, or is blocked; and after the sweep no cell holds two live
\* entities.
C19_SweepInOrder ==
  /\ [][SameCellStep => LaterCollides]_vars
  /\ [](SweepOver =>
          \A a \in LiveEntities, b \in LiveEntities :
            a # b => Position(objs[a]) # Position(objs[b]))

Origin == <<fov_call.origin_x, fov_call.origin_y>>

\* The cell of step k of the ray of index a (angle 3a degrees) of the call.
Step(a, k) == RayCell(fov_call.origin_x, fov_call.origin_y, a, k)

\* No step of the ray a before its step k is on a Wall cell.
ClearBefore(a, k) ==
  \A j \in 1 .. k - 1 : Step(a, j) \in DOMAIN grid => grid[Step(a, j)] # WALL

RaySteps == (0 .. 119) \X (1 .. 2 * fov_call.radius)

\* C20: compute_fov returns a set that contains the origin, and every other
\* member is a cell of the map that one of the 120 rays reaches within
\* 2 * radius steps with no Wall at an earlier step of the ray; a Wall cell
\* so reached is a member.
C20_FovIsRayCast ==
  pc = "computed" =>
    /\ Origin \in visible_tiles
    /\ \A c \in visible_tiles \ {Origin} :
         /\ InGrid(c, MAP_WIDTH, MAP_HEIGHT)
         /\ \E s \in RaySteps : Step(s[1], s[2]) = c /\ ClearBefore(s[1], s[2])
    /\ \A s \in RaySteps :
         (/\ \A j \in 1 .. s[2] : InGrid(Step(s[1], j), MAP_WIDTH, MAP_HEIGHT)
          /\ ClearBefore(s[1], s[2])
          /\ grid[Step(s[1], s[2])] = WALL)
           => Step(s[1], s[2]) \in visible_tiles

\* A Wall cell is seen and a cell of the map behind a Wall is not.
C20_Witness ==
  /\ pc = "computed"
  /\ \E c \in visible_tiles \ {Origin} : grid[c] = WALL
  /\ \E s \in RaySteps :
       /\ InGrid(Step(s[1], s[2]), MAP_WIDTH, MAP_HEIGHT)
       /\ Step(s[1], s[2]) \notin visible_tiles

\* The live monster that the step of the sweep updates.
Updated == enemies[sweep_i]

UpdatesLive ==
  /\ pc = "sweep"
  /\ sweep_i <= Len(enemies)
  /\ sweep_i' = sweep_i + 1
  /\ objs[Updated].hp > 0

\* The step toward the player, one cell on each axis.
Toward ==
  <<IF objs[PLAYER].x > objs[Updated].x THEN 1
    ELSE IF objs[PLAYER].x < objs[Updated].x THEN -1 ELSE 0,
    IF objs[PLAYER].y > objs[Updated].y THEN 1
    ELSE IF objs[PLAYER].y < objs[Updated].y THEN -1 ELSE 0>>

\* The monster attempts the step d; the step (0, 0) is no attempt.
Attempts(d) ==
  IF d = <<0, 0>> THEN call' = NoCall
  ELSE call' # NoCall /\ call'.self = Updated /\ <<call'.dx, call'.dy>> = d

HpKept(ents) == \A e \in ents : objs'[e].hp = objs[e].hp

\* C21: a live monster standing on a tile of the player's visible set
\* attempts the step (sign(player.x - x), sign(player.y - y)); otherwise it
\* attempts one of the four cardinal steps or stays; a Collided result makes
\* it attack the collided entity once, and any other result changes no hp.
C21_ChaseOrWander ==
  [][UpdatesLive =>
       /\ Position(objs[Updated]) \in visible_tiles => Attempts(Toward)
       /\ Position(objs[Updated]) \notin visible_tiles
            => \E d \in {<<0, 1>>, <<0, -1>>, <<1, 0>>, <<-1, 0>>, <<0, 0>>} :
                 Attempts(d)
       /\ call'.ret[1] = "Entity"
            => /\ strike' # NoStrike
               /\ strike'.self = Updated
               /\ strike'.target = call'.ret[2]
               /\ Position(objs[strike'.target])
                    = <<call'.pos[1] + call'.dx, call'.pos[2] + call'.dy>>
               /\ HpKept(DOMAIN objs \ {strike'.target})
       /\ call'.ret[1] # "Entity"
            => /\ strike' = NoStrike
               /\ HpKept(DOMAIN objs)
               /\ message_log' = message_log]_vars

\* A monster in sight has stepped diagonally toward the player, and a
\* monster has collided with the player and hurt it.
C21_Witness ==
  /\ pc = "sweep"
  /\ strike # NoStrike
  /\ strike.self # PLAYER
  /\ strike.target = PLAYER
  /\ call.dx # 0
  /\ call.dy # 0
  /\ objs[PLAYER].hp < strike.hp

\* The cells around c, those outside the grid left out.
Around(c) ==
  {d \in Cells(generator.cols, generator.rows) :
     /\ d # c
     /\ d[1] - c[1] \in {-1, 0, 1}
     /\ d[2] - c[2] \in {-1, 0, 1}}

\* The number of Wall cells around c in the grid before the step.
WallsAround(c) == Cardinality({d \in Around(c) : generator.grid[d] = WALL})

InteriorCells ==
  Cells(generator.cols, generator.rows)
    \ BorderRing(generator.cols, generator.rows)

SmoothStep == pc = "smooth" /\ pc' = "smoothed"

\* C22: one smoothing step leaves a Wall cell of the interior with at least 4
\* Wall cells among its 8 neighbours Wall, makes a Floor cell of the interior
\* with at least 5 Wall, and leaves every other cell of the interior as it
\* was before the step; the neighbours are counted in the grid before the
\* step, and the border ring is Wall afterwards.
C22_SmoothRule ==
  [][SmoothStep =>
       /\ \A c \in InteriorCells :
            generator'.grid[c] =
              IF generator.grid[c] = WALL /\ WallsAround(c) >= 4 THEN WALL
              ELSE IF generator.grid[c] = FLOOR /\ WallsAround(c) >= 5 THEN WALL
              ELSE generator.grid[c]
       /\ \A c \in BorderRing(generator.cols, generator.rows) :
            generator'.grid[c] = WALL]_vars

\* The rule of smooth with the neighbours outside the grid not counted:
\* Wall stays Wall at 4 or more, Floor becomes Wall at 5 or more, every other
\* cell is Floor.
NoWrapRule(c) ==
  IF \/ generator.grid[c] = WALL /\ WallsAround(c) >= 4
     \/ generator.grid[c] = FLOOR /\ WallsAround(c) >= 5
  THEN WALL ELSE FLOOR

\* C23: the grid smooth leaves, with its neighbour counts that wrap around
\* the edges, equals cell for cell the grid of the same rule without the
\* wrap followed by the enforcement of the border.
C23_WrapInvisible ==
  [][SmoothStep =>
       \A c \in Cells(generator.cols, generator.rows) :
         generator'.grid[c] =
           IF c \in BorderRing(generator.cols, generator.rows) THEN WALL
           ELSE NoWrapRule(c)]_vars

\* smooth has run on a grid of SmoothCols columns and has left Floor and
\* Wall cells in its interior.
C23_Witness ==
  /\ pc = "smoothed"
  /\ generator.cols = SmoothCols
  /\ \E c \in InteriorCells : generator.grid[c] = FLOOR
  /\ \E c \in InteriorCells : generator.grid[c] = WALL

\* The first region of the list among those with the most cells.
FirstLargest(regions) ==
  CHOOSE i \in DOMAIN regions :
    /\ \A h \in DOMAIN regions :
         Cardinality(regions[h]) <= Cardinality(regions[i])
    /\ \A h \in 1 .. i - 1 : Cardinality(regions[h]) < Cardinality(regions[i])

PruneStep == pc = "prune" /\ pc' = "pruned"

\* C24: prune_small_regions keeps one Floor region, the one with the most
\* cells and, among the largest, the first the scan (x outer, y inner)
\* discovers; every cell of every other Floor region becomes Wall and no
\* other cell changes; afterwards get_regions(0) returns at most one region.
C24_KeepsLargest ==
  [][PruneStep =>
       LET before == get_regions(generator.grid, generator.cols,
                                 generator.rows, FLOOR)
           after == get_regions(generator'.grid, generator.cols,
                                generator.rows, FLOOR)
       IN  /\ Len(after) <= 1
           /\ before = <<>> => generator'.grid = generator.grid
           /\ before # <<>> =>
                LET kept == before[FirstLargest(before)]
                IN  /\ after = <<kept>>
                    /\ \A c \in DOMAIN generator.grid :
                         generator'.grid[c] =
                           IF generator.grid[c] = FLOOR /\ c \notin kept
                           THEN WALL ELSE generator.grid[c]]_vars

\* Pruning has left one Floor region on a grid of PruneCols columns whose
\* Wall cells are in more than one region.
C24_Witness ==
  /\ pc = "pruned"
  /\ generator.cols = PruneCols
  /\ Len(get_regions(generator.grid, generator.cols, generator.rows, FLOOR)) = 1
  /\ Len(get_regions(generator.grid, generator.cols, generator.rows, WALL)) > 1

\* C25: in every state of the play the active depth is at least 1 and a key
\* of the level store, the keys of the store are 1 .. max without a gap, and
\* the grid and the roster that player moves and enemy sweeps work on are
\* those of levels[dungeon_level]; so an ascent finds the level it loads.
\* (A state in which generate or a placement loop runs forever is no state
\* of the play.)
C25_ActiveLevelStored ==
  pc # "hung" =>
    /\ dungeon_level >= 1
    /\ dungeon_level \in DOMAIN levels
    /\ DOMAIN levels = 1 .. Cardinality(DOMAIN levels)
    /\ grid = levels[dungeon_level].grid
    /\ enemies = levels[dungeon_level].enemies
    /\ dungeon_level > 1 => dungeon_level - 1 \in DOMAIN levels

\* The player is back at depth 1 with two levels stored, in a sweep, and
\* the roster of depth 1 has lost a dead monster.
C25_Witness ==
  /\ pc = "sweep"
  /\ dungeon_level = 1
  /\ DOMAIN levels = {1, 2}
  /\ Len(enemies) < Len(levels[2].enemies)

\* C26: once the death of the player is detected (the state is GAME_OVER),
\* no player action and no enemy sweep is resolved until the restart: the
\* rest of the frame that detects the death and every GAME_OVER frame leave
\* positions, hp values, the depth, the rosters and the explored sets as
\* they are; the restart alone resets the depth to 1, clears the store and
\* gives the player max_hp.
C26_DeathFreezes ==
  [][game_state = STATE_GAME_OVER =>
       IF RestartStep /\ game_state' = STATE_PLAYING
       THEN /\ dungeon_level' = 1
            /\ DOMAIN levels' = {1}
            /\ objs'[PLAYER].hp = objs'[PLAYER].max_hp
       ELSE /\ call' = NoCall
            /\ strike' = NoStrike
            /\ pc' # "sweep"
            /\ UNCHANGED <<objs, dungeon_level, enemies, levels,
                           explored_tiles>>]_vars

====
